---- MODULE Spec2Model ----
(***************************************************************************)
(* Folder hierarchy, attribute inheritance and the exported_attributes     *)
(* cache of one project: FolderEntity.load / save / commit and the REST    *)
(* handlers create_folder / update_folder, as state machine over the       *)
(* project's tables.                                                       *)
(***************************************************************************)
EXTENDS Integers, Sequences, FiniteSets, TLC

(* ------------------------------ bounds -------------------------------- *)

\* number of folder ids that can exist in the project
MaxFolders == 3
\* number of API requests (create_folder / update_folder) in one behaviour
MaxOps == 2
\* number of Versions that can exist under the Subsets of one folder
MaxVersions == 1
\* number of folders that get Versions in one behaviour
MaxVersioned == 1
\* number of task ids that can exist in the project
MaxTasks == 1
\* number of entries of the folder_types / task_types palette of a new project
MaxTypes == 1
\* number of attribute definitions deploy_attributes is run on
MaxDefs == 3

(* --------------------------- value domains ---------------------------- *)

FolderIds == 1..MaxFolders
\* parent_id IS NULL / None
NoParent == 0

\* attribute bags are total maps Keys -> value, NoVal standing for "key absent"
Keys == {"fps", "resolutionWidth"}
NoVal == 0
Bags == [Keys -> {NoVal, 25, 30}]
EmptyBag == [k \in Keys |-> NoVal]
Fps(v) == [k \in Keys |-> IF k = "fps" THEN v ELSE NoVal]

\* folder names are character sequences ("as", "as2", "a_"); '_' is a legal
\* name character
Names == { <<"a", "s">>, <<"a", "s", "2">>, <<"a", "_">> }
NoName == << >>
FolderTypes == {"Asset", "Shot"}
NoType == ""

\* users: managers, and non-managers for whom the access check grants or denies
Users == { [is_manager |-> TRUE, grant |-> TRUE],
           [is_manager |-> FALSE, grant |-> TRUE],
           [is_manager |-> FALSE, grant |-> FALSE] }

Requests == {1, 2}

TaskIds == 1..MaxTasks

\* project names (lower case): the project whose folders are modelled, and the
\* names ProjectEntity.save / delete are called with
ThisProject == "demo"
ProjectNames == {"demo", "test", "prod"}
OtherProjects == ProjectNames \ {ThisProject}
\* the entries a folder_types / task_types palette can hold
TypeNames == 1..MaxTypes

(* ------------------------- attribute overlay -------------------------- *)

\* dict.update / |= : every key present in b replaces the value in a
Overlay(a, b) == [k \in Keys |-> IF b[k] # NoVal THEN b[k] ELSE a[k]]

\* list(record["attrib"].keys())
OwnKeys(bag) == {k \in Keys : bag[k] # NoVal}

(* ------------------------------- paths -------------------------------- *)

CharCode(c) ==
    CASE c = "%" -> 37
      [] c = "/" -> 47
      [] c = "2" -> 50
      [] c = "_" -> 95
      [] c = "a" -> 97
      [] c = "s" -> 115

\* ORDER BY h.path ASC: bytewise comparison of two paths
RECURSIVE PathLess(_, _)
PathLess(p, q) ==
    IF q = << >> THEN FALSE
    ELSE IF p = << >> THEN TRUE
    ELSE IF Head(p) = Head(q) THEN PathLess(Tail(p), Tail(q))
    ELSE CharCode(Head(p)) < CharCode(Head(q))

\* SQL  s LIKE pat : '%' matches any run of characters, '_' any one character
RECURSIVE Like(_, _)
Like(s, pat) ==
    IF pat = << >> THEN s = << >>
    ELSE IF Head(pat) = "%"
         THEN Like(s, Tail(pat)) \/ (s # << >> /\ Like(Tail(s), pat))
    ELSE /\ s # << >>
         /\ (Head(pat) = "_" \/ Head(pat) = Head(s))
         /\ Like(Tail(s), Tail(pat))

\* row["path"].split("/")[:-1] joined by "/" again
RECURSIVE ParentPath(_)
ParentPath(p) ==
    IF p = << >> THEN << >>
    ELSE IF p[Len(p)] = "/" THEN SubSeq(p, 1, Len(p) - 1)
    ELSE ParentPath(SubSeq(p, 1, Len(p) - 1))

\* the folder ids on the parent chain of f, f included (0 ends the chain)
RECURSIVE Chain(_, _, _)
Chain(fs, f, n) ==
    IF f = NoParent \/ n = 0 \/ ~fs[f].exists THEN {}
    ELSE {f} \cup Chain(fs, fs[f].parent_id, n - 1)

\* the hierarchy view's path of folder f: the names of its ancestors and its
\* own, joined by "/"
RECURSIVE PathOf(_, _)
PathOf(fs, f) ==
    IF fs[f].parent_id = NoParent THEN fs[f].name
    ELSE PathOf(fs, fs[f].parent_id) \o <<"/">> \o fs[f].name

\* the content of the materialized view over the folders table fs
HierarchyOf(fs) ==
    [f \in FolderIds |-> IF fs[f].exists THEN PathOf(fs, f) ELSE << >>]


(* ------------------------------- state -------------------------------- *)

VARIABLES
    project_attrib,  \* public.projects.attrib of this project
    folders,         \* project_<name>.folders : id -> row
    hierarchy,       \* project_<name>.hierarchy (materialized view) : id -> path
    exported,        \* project_<name>.exported_attributes : set of rows
    versions,        \* id -> number of versions under the subsets of the folder
    had_version,     \* history: id -> a version has existed under the folder
    req,             \* the request handlers in flight
    snap,            \* history: the tables as they were when the request began
    nops,            \* requests begun so far
    tasks,           \* project_<name>.tasks : id -> row
    projects,        \* public.projects : the names that have a row
    schemas,         \* the namespaces project_<name> : name -> content
    prov,            \* the ProjectEntity.save / delete call in flight
    attributes,      \* public.attributes : set of rows
    deploy,          \* the deploy_attributes call
    gql,             \* the get_folders call (GraphQL folder listing)
    isolation,       \* public.projects with several rows, and a read of it
    aux,             \* an auxiliary table and the aux_table_update call on it
    presets,         \* public.anatomy_presets and the set_primary_preset calls
    session,         \* the dep_current_user call of a request
    users            \* public.users and the requests of the users API

vars == <<project_attrib, folders, hierarchy, exported, versions, had_version,
          req, snap, nops, tasks, projects, schemas, prov, attributes, deploy,
          gql, isolation, aux, presets, session, users>>

\* the state of the calls that do not touch the folders of the project
side == <<isolation, aux, presets, session, users>>

setup == <<attributes, deploy, gql, side>>

\* everything but the variables of side
base == <<project_attrib, folders, hierarchy, exported, versions, had_version,
          req, snap, nops, tasks, projects, schemas, prov, attributes, deploy, gql>>

provisioning == <<projects, schemas, prov>>

db == <<folders, hierarchy, exported>>

NoRow == [exists |-> FALSE, name |-> NoName, folder_type |-> NoType,
          parent_id |-> NoParent, attrib |-> EmptyBag]

NoEntity == [id |-> 0, name |-> NoName, folder_type |-> NoType,
             parent_id |-> NoParent, attrib |-> EmptyBag, own_attrib |-> {},
             path |-> << >>, exists |-> FALSE]

NoPost == [name |-> NoName, folder_type |-> NoType, parent_id |-> NoParent,
           attrib |-> EmptyBag]

NoHierarchy == [f \in FolderIds |-> << >>]

NoUser == [is_manager |-> FALSE, grant |-> FALSE]

IdleReq == [pc |-> "idle", kind |-> "none", user |-> NoUser,
            post |-> NoPost, ent |-> NoEntity, has_versions |-> FALSE,
            access |-> "",
            in_tx |-> FALSE, tx_del |-> {}, tx_ins |-> {}, targets |-> {},
            tx_has_fold |-> FALSE, tx_fold |-> NoRow,
            tx_has_hier |-> FALSE, tx_hier |-> NoHierarchy,
            rows |-> << >>, cache |-> {}, skipped |-> {}, warned |-> FALSE,
            result |-> ""]

NoSnap == <<[f \in FolderIds |-> NoRow], NoHierarchy, {}>>

\* deploy_attributes before it is called, with the definitions it will read
IdleDeploy(defs) == [pc |-> "idle", defs |-> defs, i |-> 1, position |-> 0,
                     skipped |-> {}]

\* the user of a folder listing: permissions(project_name) is a record
\* (attrib_read, read patterns) or None
NoListUser == [is_manager |-> FALSE, has_record |-> FALSE, attrib_read |-> {},
               read |-> {}]

\* get_folders before it is called
IdleGql == [pc |-> "idle", user |-> NoListUser, where |-> << >>,
            has_children |-> "none", failed |-> FALSE, records |-> {},
            data |-> [f \in FolderIds |-> EmptyBag],
            nodes |-> [f \in FolderIds |-> EmptyBag]]

\* public.projects as one row, before any read
IdleIsolation == [pc |-> "idle", rows |-> {}, name |-> NoName, folder |-> 0,
                  records |-> {}, attrib |-> EmptyBag]

\* an empty auxiliary table and no call on it; unique and not_null tell
\* whether the table has the constraint on name and on data
IdleAux == [pc |-> "idle", table |-> {}, before |-> {}, old_data |-> {},
            update_data |-> << >>, i |-> 0, unique |-> TRUE, not_null |-> TRUE]

PresetNames == {"film", "tv"}
NoPreset == ""
Callers == {1, 2}

\* a set_primary_preset call: its preset_name, the rows its transaction has
\* written with the value of is_primary, the rows its first UPDATE chose
\* before it had to wait, and whether another call was in flight with it
IdleCall == [pc |-> "idle", preset_name |-> NoPreset, tx |-> {}, targets |-> {},
             alone |-> TRUE]

\* no anatomy preset, no set_primary_preset call; solo is the preset_name of
\* the last call to commit when it ran with no other call in flight
IdlePresets == [rows |-> {}, calls |-> [c \in Callers |-> IdleCall],
                solo |-> NoPreset]

Endpoints == {"get_folder", "create_folder", "delete_folder"}

\* user.permissions(project_name): None, or a record whose endpoints is a
\* list of endpoint names or a value of another type
NoPerms == [has_record |-> FALSE, is_list |-> FALSE, endpoints |-> {}]

\* a request before its dependencies run: whether it carries an access token,
\* whether Session.check finds a session for it, the user of the session, the
\* endpoint it is for; result is what dep_current_user gave, requests what
\* Redis.incr has counted
IdleSession == [pc |-> "idle", has_token |-> FALSE, valid |-> FALSE,
                is_manager |-> FALSE, perms |-> NoPerms, endpoint |-> "",
                result |-> "", requests |-> 0]

UserNames == {"bob"}
RoleProjects == {"p1", "p2"}

\* data["roles"] has no entry for a project
NoRoles == [has |-> FALSE, roles |-> {}]

\* no row of public.users for a name; a row has the data of the user (the
\* fields the request gave) and data["roles"]
NoUserRow == [exists |-> FALSE, data |-> "", roles |-> [q \in RoleProjects |-> NoRoles]]

\* a request of the users API: the handler, whether the current user is a
\* manager, the user_name of the path, the body (put_data, patch_data.roles),
\* the entity the handler holds, the row found by load, the row that was
\* there when save wrote, the response
IdleUserReq == [pc |-> "idle", kind |-> "", is_manager |-> FALSE,
                user_name |-> "", put_data |-> "", patch_data |-> << >>,
                entity |-> NoUserRow, loaded |-> FALSE, found |-> NoUserRow,
                saved |-> FALSE, before |-> NoUserRow, status |-> ""]

\* no request of the users API; rows is public.users by name
IdleUsers == [rows |-> [n \in UserNames |-> NoUserRow],
              reqs |-> [c \in Callers |-> IdleUserReq]]

\* no call of side is in flight
SideIdle ==
    /\ isolation = IdleIsolation
    /\ aux = IdleAux
    /\ presets = IdlePresets
    /\ session = IdleSession
    /\ users = IdleUsers

NoTask == [exists |-> FALSE, folder_id |-> NoParent, attrib |-> EmptyBag]

\* a namespace: whether it exists, whether the tables of the schema template
\* exist in it, and the rows of its folder_types and task_types tables
NoSchema == [exists |-> FALSE, tables |-> FALSE, folder_types |-> {},
             task_types |-> {}]

IdleProv == [pc |-> "idle", kind |-> "none", name |-> "",
             folder_types |-> {}, task_types |-> {},
             tx_row |-> FALSE, tx_unrow |-> FALSE,
             tx_has_schema |-> FALSE, tx_schema |-> NoSchema,
             result |-> "", failed_at |-> "",
             old_projects |-> {}, old_schemas |-> [n \in ProjectNames |-> NoSchema]]

(* ---------------- what a statement of request r can see ----------------- *)

\* READ COMMITTED: the committed rows and the transaction's own changes
FoldersView(r) ==
    IF req[r].tx_has_fold
    THEN [folders EXCEPT ![req[r].ent.id] = req[r].tx_fold]
    ELSE folders

ExportedView(r) == (exported \ req[r].tx_del) \cup req[r].tx_ins

HierarchyView(r) == IF req[r].tx_has_hier THEN req[r].tx_hier ELSE hierarchy

\* another open transaction has written the row of folder f
RowLocked(r, f) ==
    \E o \in Requests \ {r} : req[o].tx_has_fold /\ req[o].ent.id = f

\* another open transaction has refreshed the view (the lock REFRESH takes is
\* held to the end of the transaction)
ViewLocked(r) == \E o \in Requests \ {r} : req[o].tx_has_hier

\* another open transaction has deleted one of these cache rows
CacheRowsLocked(r, rows) ==
    \E o \in Requests \ {r} : req[o].tx_del \cap rows # {}

(* ------------------------- FolderEntity.load -------------------------- *)

\* LoadAttrib with the two updates swapped: the cached row is applied last
LoadAttribInheritedLast(project, has_ia, ia, own) ==
    IF has_ia THEN Overlay(Overlay(project, own), ia) ELSE Overlay(project, own)

\* LoadAttrib starting from an empty bag when the LEFT JOIN found no row
LoadAttribNoFallback(project, has_ia, ia, own) ==
    Overlay(IF has_ia THEN Overlay(project, ia) ELSE EmptyBag, own)

\* attrib = project_attrib; attrib.update(inherited_attrib) when the LEFT JOIN
\* found a row; attrib.update(record["attrib"])
LoadAttrib(project, has_ia, ia, own) ==
    Overlay(IF has_ia THEN Overlay(project, ia) ELSE project, own)

\* cls.from_record(payload={**record, "attrib": attrib}, own_attrib=...)
LoadedEntity(f, has_ia, ia) ==
    [id |-> f, name |-> folders[f].name,
     folder_type |-> folders[f].folder_type,
     parent_id |-> folders[f].parent_id,
     attrib |-> LoadAttrib(project_attrib, has_ia, ia, folders[f].attrib),
     own_attrib |-> OwnKeys(folders[f].attrib),
     path |-> hierarchy[f], exists |-> TRUE]

\* the entities load can return for folder f: the SELECT yields one record per
\* cache row whose folder_id is the parent's id (or one record with a NULL
\* inherited_attrib) and load returns on the first record; no record at all
\* (no folders row, or no hierarchy row for the INNER JOIN) is NotFound
LoadResults(f) ==
    IF ~folders[f].exists \/ hierarchy[f] = << >> THEN {}
    ELSE LET ia == {e \in exported : e.folder_id = folders[f].parent_id}
         IN IF ia = {}
            THEN { LoadedEntity(f, FALSE, EmptyBag) }
            ELSE { LoadedEntity(f, TRUE, e.attrib) : e \in ia }

\* the branch of load that calls logging.warning: no cache row was joined and
\* the folder has a parent
LoadWarns(f) ==
    /\ folders[f].parent_id # NoParent
    /\ ~\E e \in exported : e.folder_id = folders[f].parent_id

(* ------------------------- access checks ------------------------------ *)

\* ensure_entity_access(user, project, "folder", id, kind): managers pass, the
\* others by their permission record
EnsureEntityAccess(user) == user.is_manager \/ user.grant

\* EnsureCreateAccess without the override for root folders (the method of the
\* parent class)
EnsureCreateAccessNoRootRule(user, parent_id) == EnsureEntityAccess(user)

\* FolderEntity.ensure_create_access: TRUE when no ForbiddenException is raised
EnsureCreateAccess(user, parent_id) ==
    IF parent_id = NoParent THEN user.is_manager
    ELSE EnsureEntityAccess(user)

(* ----------------------- constraints of the store --------------------- *)

\* the unique index on (parent_id, name): another folder of the same parent
\* carries the name
NameTaken(fs, f, parent_id, name) ==
    \E g \in FolderIds \ {f} :
        fs[g].exists /\ fs[g].parent_id = parent_id /\ fs[g].name = name

\* the foreign key folders.parent_id -> folders.id
ParentMissing(fs, parent_id) ==
    parent_id # NoParent /\ ~fs[parent_id].exists

(* ------------------------- update_folder ------------------------------ *)

\* one round of the loop over ["name", "folder_type", "parent_id"]: the request
\* gives a value (not None) and it differs from the folder's
KeyChanges(old_is_none, old, new_is_none, new) ==
    ~new_is_none /\ (old_is_none \/ old # new)

\* LockViolated with "parent_id" missing from the list of keys
LockViolatedNoParent(ent, post, has_versions) ==
    /\ has_versions
    /\ \/ KeyChanges(FALSE, ent.name, post.name = NoName, post.name)
       \/ KeyChanges(ent.folder_type = NoType, ent.folder_type,
                     post.folder_type = NoType, post.folder_type)

\* the loop raises ForbiddenException for some key
LockViolated(ent, post, has_versions) ==
    /\ has_versions
    /\ \/ KeyChanges(FALSE, ent.name, post.name = NoName, post.name)
       \/ KeyChanges(ent.folder_type = NoType, ent.folder_type,
                     post.folder_type = NoType, post.folder_type)
       \/ KeyChanges(ent.parent_id = NoParent, ent.parent_id,
                     post.parent_id = NoParent, post.parent_id)

\* not not (await folder.get_versions(conn))
HasVersions(f) == versions[f] > 0

\* folder.patch(post_data): every field the request gives (not None) replaces
\* the entity's, the others are left untouched; the attributes it gives become
\* own attributes
Patch(ent, post) ==
    [ent EXCEPT
        !.name = IF post.name # NoName THEN post.name ELSE @,
        !.folder_type = IF post.folder_type # NoType THEN post.folder_type ELSE @,
        !.parent_id = IF post.parent_id # NoParent THEN post.parent_id ELSE @,
        !.attrib = Overlay(@, post.attrib),
        !.own_attrib = @ \cup OwnKeys(post.attrib)]

(* ------------------------- FolderEntity.save -------------------------- *)

\* attrib = every value of self.attrib
SavedAttribAll(ent) == ent.attrib

\* attrib = {key: value for key in own_attrib if value is not None}
SavedAttrib(ent) ==
    [k \in Keys |-> IF k \in ent.own_attrib THEN ent.attrib[k] ELSE NoVal]

\* the row the UPDATE leaves / the INSERT creates
SavedRow(ent) ==
    [exists |-> TRUE, name |-> ent.name, folder_type |-> ent.folder_type,
     parent_id |-> ent.parent_id,
     attrib |-> IF ent.exists THEN SavedAttrib(ent) ELSE ent.attrib]

\* InvalidatedRows with WHERE path = '{self.path}'
InvalidatedRowsOwnPath(rows, path) == {e \in rows : e.path = path}

\* DELETE FROM exported_attributes WHERE path LIKE '{self.path}%'
InvalidatedRows(rows, path) ==
    {e \in rows : Like(e.path, path \o <<"%">>)}

(* ------------------------ FolderEntity.commit ------------------------- *)

\* the rows of the SELECT: every folder of the view that has no cache row for
\* its path, LEFT JOINed with the cache row(s) of its parent
QueryRows(fs, hv, ev, project) ==
    UNION { LET e_par == {e \in ev : e.folder_id = fs[f].parent_id}
                row(has, ia) ==
                    [id |-> f, path |-> hv[f], own_attrib |-> fs[f].attrib,
                     parent_id |-> fs[f].parent_id, project_attrib |-> project,
                     has_inherited |-> has, inherited_attrib |-> ia]
            IN IF e_par = {} THEN { row(FALSE, EmptyBag) }
               ELSE { row(TRUE, e.attrib) : e \in e_par }
          : f \in { g \in FolderIds :
                      /\ fs[g].exists
                      /\ hv[g] # << >>
                      /\ hv[g] \notin {e.path : e \in ev} } }

\* FirstRow under ORDER BY h.path DESC
FirstRowDescending(S) == CHOOSE x \in S : \A y \in S : ~PathLess(x.path, y.path)

\* the row the cursor yields first
FirstRow(S) == CHOOSE x \in S : \A y \in S : ~PathLess(y.path, x.path)

\* ORDER BY h.path ASC
RECURSIVE Ordered(_)
Ordered(S) ==
    IF S = {} THEN << >>
    ELSE <<FirstRow(S)>> \o Ordered(S \ {FirstRow(S)})

\* parent_path in cache
Cached(cache, path) == \E c \in cache : c.path = path
CacheGet(cache, path) == (CHOOSE c \in cache : c.path = path).attr

\* CanBuild without the branch  elif parent_path in cache
CanBuildNoCache(row, cache) ==
    \/ row.has_inherited
    \/ row.parent_id = NoParent

\* CanBuild for root folders only
CanBuildRootOnly(row, cache) == row.parent_id = NoParent

\* the body of the loop can build a bag for the row (it does not `continue`)
CanBuild(row, cache) ==
    \/ row.has_inherited
    \/ row.parent_id = NoParent
    \/ Cached(cache, ParentPath(row.path))

\* BuiltAttr without  attr |= row["own_attrib"]
BuiltAttrNoOwn(row, cache) ==
    IF row.has_inherited THEN row.inherited_attrib
    ELSE IF row.parent_id = NoParent THEN row.project_attrib
    ELSE CacheGet(cache, ParentPath(row.path))

\* the bag the loop builds for the row
BuiltAttr(row, cache) ==
    Overlay(IF row.has_inherited THEN row.inherited_attrib
            ELSE IF row.parent_id = NoParent THEN row.project_attrib
            ELSE CacheGet(cache, ParentPath(row.path)),
            row.own_attrib)


(* --------------------------- initial state ---------------------------- *)

ProjectDefaults == [k \in Keys |-> IF k = "fps" THEN 25 ELSE NoVal]

\* the cache row commit builds for a folder of a well-formed tree
RECURSIVE Cascade(_, _, _)
Cascade(fs, project, f) ==
    Overlay(IF fs[f].parent_id = NoParent THEN project
            ELSE Cascade(fs, project, fs[f].parent_id),
            fs[f].attrib)

CacheOf(fs, project) ==
    { [folder_id |-> f, path |-> PathOf(fs, f), attrib |-> Cascade(fs, project, f)]
      : f \in {g \in FolderIds : fs[g].exists} }

\* project "demo" after create_folder "as" (root, own attributes own1) and
\* create_folder "as" under it (own attributes own2)
InitFolders(own1, own2) ==
    [f \in FolderIds |->
        IF f = 1 THEN [exists |-> TRUE, name |-> <<"a", "s">>, folder_type |-> "Asset",
                       parent_id |-> NoParent, attrib |-> own1]
        ELSE IF f = 2 THEN [exists |-> TRUE, name |-> <<"a", "s">>, folder_type |-> "Asset",
                            parent_id |-> 1, attrib |-> own2]
        ELSE NoRow]

\* the namespace of the project of the scenario: default folder_types
DemoSchema == [exists |-> TRUE, tables |-> TRUE, folder_types |-> TypeNames,
               task_types |-> {}]

Init ==
    /\ project_attrib = ProjectDefaults
    /\ \E own \in {EmptyBag, Fps(25)} : folders = InitFolders(EmptyBag, own)
    /\ hierarchy = HierarchyOf(folders)
    /\ exported = CacheOf(folders, project_attrib)
    /\ versions = [f \in FolderIds |-> 0]
    /\ had_version = [f \in FolderIds |-> FALSE]
    /\ req = [r \in Requests |-> IdleReq]
    /\ snap = [r \in Requests |-> NoSnap]
    /\ nops = 0
    /\ tasks = [t \in TaskIds |-> NoTask]
    /\ projects = {ThisProject}
    /\ schemas = [n \in ProjectNames |->
                    IF n = ThisProject THEN DemoSchema ELSE NoSchema]
    /\ prov = IdleProv
    /\ attributes = {}
    /\ deploy = IdleDeploy(<< >>)
    /\ gql = IdleGql
    /\ SideIdle

(* ------------------------------ requests ------------------------------ *)

Idle == \A r \in Requests : req[r].pc = "idle"

FreeIds == {f \in FolderIds : ~folders[f].exists}

\* the request ends: the exception or the response leaves the handler, and an
\* open transaction is rolled back
Ended(rec, result) ==
    [rec EXCEPT !.pc = "done", !.result = result,
                !.tx_del = {}, !.tx_ins = {}, !.targets = {},
                !.tx_has_fold = FALSE, !.tx_fold = NoRow,
                !.tx_has_hier = FALSE, !.tx_hier = NoHierarchy,
                !.rows = << >>, !.cache = {}]

\* commit returns and nothing commits the transaction of update_folder
AfterLoopEndsRequest(rec) == Ended(rec, "ok")

\* the loop over the cursor is over: commit returns
AfterLoop(rec) ==
    IF rec.in_tx THEN [rec EXCEPT !.pc = "commit", !.rows = << >>, !.cache = {}]
    ELSE Ended(rec, "ok")

\* POST /projects/{project_name}/folders
BeginCreate(r, user, name, parent_id, attrib) ==
    /\ req[r].pc = "idle"
    /\ nops < MaxOps
    /\ FreeIds # {}
    /\ LET id == CHOOSE f \in FreeIds : \A g \in FreeIds : f <= g
           ent == [id |-> id, name |-> name, folder_type |-> "Asset",
                   parent_id |-> parent_id, attrib |-> attrib,
                   own_attrib |-> OwnKeys(attrib), path |-> << >>, exists |-> FALSE]
           rec == [IdleReq EXCEPT !.kind = "create", !.user = user, !.ent = ent]
       IN req' = [req EXCEPT ![r] =
                    IF EnsureCreateAccess(user, parent_id)
                    THEN [rec EXCEPT !.pc = "write"]
                    ELSE Ended(rec, "forbidden")]
    /\ snap' = [snap EXCEPT ![r] = db]
    /\ nops' = nops + 1
    /\ UNCHANGED <<setup, tasks, provisioning, project_attrib, folders, hierarchy, exported, versions, had_version>>

\* PATCH /projects/{project_name}/folders/{folder_id}: the transaction opens
\* and FolderEntity.load(for_update=True) runs
BeginUpdate(r, user, f, post) ==
    /\ req[r].pc = "idle"
    /\ nops < MaxOps
    /\ ~RowLocked(r, f)
    /\ LET rec == [IdleReq EXCEPT !.kind = "update", !.user = user, !.post = post,
                                  !.in_tx = TRUE]
       IN IF LoadResults(f) = {}
          THEN req' = [req EXCEPT ![r] = Ended([rec EXCEPT !.ent.id = f], "notfound")]
          ELSE \E ent \in LoadResults(f) :
                  req' = [req EXCEPT ![r] = [rec EXCEPT !.pc = "check", !.ent = ent,
                                                        !.warned = LoadWarns(f)]]
    /\ snap' = [snap EXCEPT ![r] = db]
    /\ nops' = nops + 1
    /\ UNCHANGED <<setup, tasks, provisioning, project_attrib, folders, hierarchy, exported, versions, had_version>>

\* GET /projects/{project_name}/folders/{folder_id}
BeginGet(r, user, f) ==
    /\ req[r].pc = "idle"
    /\ LET rec == [IdleReq EXCEPT !.kind = "get", !.user = user]
       IN IF LoadResults(f) = {}
          THEN req' = [req EXCEPT ![r] = Ended([rec EXCEPT !.ent.id = f], "notfound")]
          ELSE \E ent \in LoadResults(f) :
                  req' = [req EXCEPT ![r] =
                            Ended([rec EXCEPT !.ent = ent, !.warned = LoadWarns(f)],
                                  IF EnsureEntityAccess(user) THEN "ok" ELSE "forbidden")]
    /\ UNCHANGED <<setup, tasks, provisioning, project_attrib, folders, hierarchy, exported, versions,
                   had_version, snap, nops>>

\* update_folder between load and save: ensure_update_access, get_versions,
\* the loop over the structural keys, patch (the user is not read again)
Check(r) ==
    /\ req[r].pc = "check"
    /\ LET rec == req[r]
           has == HasVersions(rec.ent.id)
       IN req' = [req EXCEPT ![r] =
                    IF ~EnsureEntityAccess(rec.user)
                    THEN Ended([rec EXCEPT !.access = "denied"], "forbidden")
                    ELSE IF LockViolated(rec.ent, rec.post, has)
                         THEN Ended([rec EXCEPT !.has_versions = has, !.user = NoUser,
                                                !.access = "granted"], "forbidden")
                    ELSE [rec EXCEPT !.pc = "delete", !.has_versions = has,
                                     !.user = NoUser, !.access = "granted",
                                     !.ent = Patch(rec.ent, rec.post)]]
    /\ UNCHANGED <<setup, tasks, provisioning, project_attrib, folders, hierarchy, exported, versions,
                   had_version, snap, nops>>

\* save of an existing folder, first statement: the DELETE on the cache
DeleteCache(r) ==
    /\ req[r].pc = "delete"
    /\ LET rec == req[r]
           gone == InvalidatedRows(ExportedView(r), rec.ent.path)
       IN /\ ~CacheRowsLocked(r, gone)
          /\ req' = [req EXCEPT ![r] =
                       [rec EXCEPT !.pc = "write",
                                   !.tx_del = @ \cup (gone \cap exported),
                                   !.tx_ins = @ \ gone]]
    /\ UNCHANGED <<setup, tasks, provisioning, project_attrib, folders, hierarchy, exported, versions,
                   had_version, snap, nops>>

\* the DELETE on the cache finds one of its rows deleted by a transaction that
\* is still open: the statement waits, with the rows it has found
DeleteCacheBlocked(r) ==
    /\ req[r].pc = "delete"
    /\ LET rec == req[r]
           gone == InvalidatedRows(ExportedView(r), rec.ent.path)
       IN /\ CacheRowsLocked(r, gone)
          /\ req' = [req EXCEPT ![r] = [rec EXCEPT !.pc = "delete_wait",
                                                   !.targets = gone]]
    /\ UNCHANGED <<setup, tasks, provisioning, project_attrib, folders, hierarchy, exported, versions,
                   had_version, snap, nops>>

\* the transactions the DELETE waited for are over: it deletes the rows it had
\* found that are still there, and sees no row committed since it began
DeleteCacheResumed(r) ==
    /\ req[r].pc = "delete_wait"
    /\ LET rec == req[r]
       IN /\ ~CacheRowsLocked(r, rec.targets)
          /\ req' = [req EXCEPT ![r] =
                       [rec EXCEPT !.pc = "write",
                                   !.tx_del = @ \cup (rec.targets \cap exported),
                                   !.tx_ins = @ \ rec.targets,
                                   !.targets = {}]]
    /\ UNCHANGED <<setup, tasks, provisioning, project_attrib, folders, hierarchy, exported, versions,
                   had_version, snap, nops>>

\* save: the INSERT of a new folder (on the pool, committed at once; a
\* violation becomes ConstraintViolationException) or the UPDATE of an existing
\* one (in the request's transaction; a violation is not caught)
WriteRow(r) ==
    /\ req[r].pc = "write"
    /\ LET rec == req[r]
           e == rec.ent
           fs == FoldersView(r)
           bad == ParentMissing(fs, e.parent_id) \/ NameTaken(fs, e.id, e.parent_id, e.name)
       IN IF ~e.exists
          THEN /\ req' = [req EXCEPT ![r] =
                            IF bad THEN Ended(rec, "constraint")
                            ELSE [rec EXCEPT !.pc = "refresh"]]
               /\ folders' = IF bad THEN folders
                             ELSE [folders EXCEPT ![e.id] = SavedRow(e)]
          ELSE /\ ~RowLocked(r, e.id)
               /\ req' = [req EXCEPT ![r] =
                            IF bad THEN Ended(rec, "error")
                            ELSE [rec EXCEPT !.pc = "refresh", !.tx_has_fold = TRUE,
                                             !.tx_fold = SavedRow(e)]]
               /\ UNCHANGED folders
    /\ UNCHANGED <<setup, tasks, provisioning, project_attrib, hierarchy, exported, versions, had_version,
                   snap, nops>>

\* commit: REFRESH MATERIALIZED VIEW CONCURRENTLY hierarchy
Refresh(r) ==
    /\ req[r].pc = "refresh"
    /\ ~ViewLocked(r)
    /\ LET rec == req[r]
           hv == HierarchyOf(FoldersView(r))
       IN IF rec.in_tx
          THEN /\ req' = [req EXCEPT ![r] =
                            [rec EXCEPT !.pc = "query", !.tx_has_hier = TRUE,
                                        !.tx_hier = hv]]
               /\ UNCHANGED hierarchy
          ELSE /\ req' = [req EXCEPT ![r] = [rec EXCEPT !.pc = "query"]]
               /\ hierarchy' = hv
    /\ UNCHANGED <<setup, tasks, provisioning, project_attrib, folders, exported, versions, had_version,
                   snap, nops>>

\* commit: the SELECT of the paths that miss a cache row is opened
Query(r) ==
    /\ req[r].pc = "query"
    /\ LET rec == req[r]
           rows == Ordered(QueryRows(FoldersView(r), HierarchyView(r),
                                     ExportedView(r), project_attrib))
       IN req' = [req EXCEPT ![r] =
                    IF rows = << >> THEN AfterLoop(rec)
                    ELSE [rec EXCEPT !.pc = "insert", !.rows = rows, !.cache = {}]]
    /\ UNCHANGED <<setup, tasks, provisioning, project_attrib, folders, hierarchy, exported, versions,
                   had_version, snap, nops>>

\* commit: one round of the loop over the cursor
InsertRow(r) ==
    /\ req[r].pc = "insert"
    /\ req[r].rows # << >>
    /\ LET rec == req[r]
           row == Head(rec.rows)
           attr == BuiltAttr(row, rec.cache)
           new == [folder_id |-> row.id, path |-> row.path, attrib |-> attr]
           next(x) == IF Tail(rec.rows) = << >> THEN AfterLoop(x)
                      ELSE [x EXCEPT !.rows = Tail(rec.rows)]
       IN IF ~CanBuild(row, rec.cache)
          THEN /\ req' = [req EXCEPT ![r] =
                            next([rec EXCEPT !.skipped = @ \cup {row.path}])]
               /\ UNCHANGED exported
          ELSE IF \E e \in ExportedView(r) : e.path = row.path
          THEN /\ req' = [req EXCEPT ![r] = Ended(rec, "error")]
               /\ UNCHANGED exported
          ELSE LET cached == [rec EXCEPT !.cache =
                                {c \in @ : c.path # row.path}
                                \cup {[path |-> row.path, attr |-> attr]}]
               IN IF rec.in_tx
                  THEN /\ req' = [req EXCEPT ![r] =
                                    next([cached EXCEPT !.tx_ins = @ \cup {new}])]
                       /\ UNCHANGED exported
                  ELSE /\ req' = [req EXCEPT ![r] = next(cached)]
                       /\ exported' = exported \cup {new}
    /\ UNCHANGED <<setup, tasks, provisioning, project_attrib, folders, hierarchy, versions, had_version,
                   snap, nops>>

\* update_folder: the `async with conn.transaction()` block is left normally
TxCommit(r) ==
    /\ req[r].pc = "commit"
    /\ folders' = FoldersView(r)
    /\ hierarchy' = HierarchyView(r)
    /\ exported' = ExportedView(r)
    /\ req' = [q \in Requests |->
                IF q = r THEN Ended(req[r], "ok")
                ELSE [req[q] EXCEPT !.targets = @ \ req[r].tx_del]]
    /\ UNCHANGED <<setup, tasks, provisioning, project_attrib, versions, had_version, snap, nops>>

\* a statement of the save-and-recompute sequence fails, or the request is
\* aborted: the exception leaves the handler; what ran in a transaction is
\* rolled back, what ran on the pool stays
Fail(r) ==
    /\ req[r].pc \in {"delete", "delete_wait", "write", "refresh", "query", "insert",
                      "commit"}
    /\ req' = [req EXCEPT ![r] = Ended(req[r], "failed")]
    /\ UNCHANGED <<setup, tasks, provisioning, project_attrib, folders, hierarchy, exported, versions,
                   had_version, snap, nops>>

\* the response has been sent
Respond(r) ==
    /\ req[r].pc = "done"
    /\ req' = [req EXCEPT ![r] = IdleReq]
    /\ snap' = [snap EXCEPT ![r] = NoSnap]
    /\ UNCHANGED <<setup, tasks, provisioning, project_attrib, folders, hierarchy, exported, versions,
                   had_version, nops>>

\* a Version is published under a Subset of folder f / the last one is deleted
CreateVersion(f) ==
    /\ folders[f].exists
    /\ versions[f] < MaxVersions
    /\ Cardinality({g \in FolderIds : had_version[g]} \cup {f}) <= MaxVersioned
    /\ versions' = [versions EXCEPT ![f] = @ + 1]
    /\ had_version' = [had_version EXCEPT ![f] = TRUE]
    /\ UNCHANGED <<setup, tasks, provisioning, project_attrib, folders, hierarchy, exported, req, snap, nops>>

DeleteVersion(f) ==
    /\ versions[f] > 0
    /\ versions' = [versions EXCEPT ![f] = @ - 1]
    /\ UNCHANGED <<setup, tasks, provisioning, project_attrib, folders, hierarchy, exported, had_version,
                   req, snap, nops>>

(* ---------------------- ProjectEntity.save (update) -------------------- *)

\* ProjectEntity.save of the existing project with attributes a (the palettes
\* saved as they were loaded): the UPDATE of public.projects, in a transaction
\* of its own; no statement touches exported_attributes
SaveProject(a) ==
    /\ a # project_attrib
    /\ project_attrib' = a
    /\ UNCHANGED <<setup, tasks, provisioning, folders, hierarchy, exported, versions,
                   had_version, req, snap, nops>>

(* ---------------- ProjectEntity.save (new project) / delete ------------- *)

\* what the statements of the call in flight see: the committed rows and
\* namespaces and the changes of the call's own transaction
ProjectsView(ps, rec) ==
    (ps \cup (IF rec.tx_row THEN {rec.name} ELSE {}))
        \ (IF rec.tx_unrow THEN {rec.name} ELSE {})

\* SchemasView that loses the changes to the namespace
SchemasViewUnchanged(ss, rec) == ss

SchemasView(ss, rec) ==
    IF rec.tx_has_schema THEN [ss EXCEPT ![rec.name] = rec.tx_schema] ELSE ss

\* SaveInsertOutcome without the except clause
SaveInsertOutcomeUncaught(ps, name) == IF name \in ps THEN "error" ELSE "schema"

\* the INSERT into projects: Postgres.UniqueViolationError is caught and
\* ConstraintViolationException raised, else _save goes on with CREATE SCHEMA
SaveInsertOutcome(ps, name) == IF name \in ps THEN "constraint" ELSE "schema"

\* the call ends: the exception or the return value leaves save / delete; a
\* transaction that was not committed is rolled back
EndProv(rec, result) ==
    [rec EXCEPT !.pc = "done", !.result = result,
                !.failed_at = IF result = "ok" THEN "" ELSE rec.pc,
                !.tx_row = FALSE, !.tx_unrow = FALSE,
                !.tx_has_schema = FALSE, !.tx_schema = NoSchema]

\* ProjectEntity(payload).save() of a project that does not exist yet: a
\* connection is acquired and the transaction opened
BeginSave(name, ft, tt) ==
    /\ prov.pc = "idle"
    /\ prov' = [IdleProv EXCEPT !.pc = "insert", !.kind = "save", !.name = name,
                                !.folder_types = ft, !.task_types = tt,
                                !.old_projects = projects, !.old_schemas = schemas]
    /\ UNCHANGED <<setup, tasks, projects, schemas, project_attrib, folders, hierarchy,
                   exported, versions, had_version, req, snap, nops>>

\* one statement of _save: the INSERT of the project row, CREATE SCHEMA, the
\* schema template (after SET LOCAL search_path), one round of the loop over
\* folder_types, one round of the loop over task_types
SaveStep ==
    /\ prov.kind = "save"
    /\ prov.pc \in {"insert", "schema", "template", "folder_types", "task_types"}
    /\ prov' =
          CASE prov.pc = "insert" ->
                 LET out == SaveInsertOutcome(projects, prov.name)
                 IN IF out = "schema"
                    THEN [prov EXCEPT !.pc = "schema", !.tx_row = TRUE]
                    ELSE EndProv(prov, out)
            [] prov.pc = "schema" ->
                 IF schemas[prov.name].exists
                 THEN EndProv(prov, "error")
                 ELSE [prov EXCEPT !.pc = "template", !.tx_has_schema = TRUE,
                                   !.tx_schema = [NoSchema EXCEPT !.exists = TRUE]]
            [] prov.pc = "template" ->
                 [prov EXCEPT !.pc = "folder_types", !.tx_schema.tables = TRUE]
            [] prov.pc = "folder_types" ->
                 LET todo == prov.folder_types \ prov.tx_schema.folder_types
                 IN IF todo = {} THEN [prov EXCEPT !.pc = "task_types"]
                    ELSE [prov EXCEPT !.tx_schema.folder_types =
                                         @ \cup {CHOOSE t \in todo : \A u \in todo : t <= u}]
            [] prov.pc = "task_types" ->
                 LET todo == prov.task_types \ prov.tx_schema.task_types
                 IN IF todo = {} THEN [prov EXCEPT !.pc = "commit"]
                    ELSE [prov EXCEPT !.tx_schema.task_types =
                                         @ \cup {CHOOSE t \in todo : \A u \in todo : t <= u}]
    /\ UNCHANGED <<setup, tasks, projects, schemas, project_attrib, folders, hierarchy,
                   exported, versions, had_version, req, snap, nops>>

\* ProjectEntity.delete() of an entity with this name
BeginDelete(name) ==
    /\ prov.pc = "idle"
    /\ prov' = [IdleProv EXCEPT !.pc = "drop", !.kind = "delete", !.name = name,
                                !.old_projects = projects, !.old_schemas = schemas]
    /\ UNCHANGED <<setup, tasks, projects, schemas, project_attrib, folders, hierarchy,
                   exported, versions, had_version, req, snap, nops>>

\* one statement of _delete: DROP SCHEMA ... CASCADE (an error when there is no
\* such namespace), then DELETE FROM public.projects (any number of rows)
DeleteStep ==
    /\ prov.kind = "delete"
    /\ prov.pc \in {"drop", "delete_row"}
    /\ prov' =
          IF prov.pc = "drop"
          THEN IF ~schemas[prov.name].exists THEN EndProv(prov, "error")
               ELSE [prov EXCEPT !.pc = "delete_row", !.tx_has_schema = TRUE,
                                 !.tx_schema = NoSchema]
          ELSE [prov EXCEPT !.pc = "commit", !.tx_unrow = TRUE]
    /\ UNCHANGED <<setup, tasks, projects, schemas, project_attrib, folders, hierarchy,
                   exported, versions, had_version, req, snap, nops>>

\* the `async with conn.transaction()` block of save / delete is left normally
ProvCommit ==
    /\ prov.pc = "commit"
    /\ projects' = ProjectsView(projects, prov)
    /\ schemas' = SchemasView(schemas, prov)
    /\ prov' = EndProv(prov, "ok")
    /\ UNCHANGED <<setup, tasks, project_attrib, folders, hierarchy, exported, versions,
                   had_version, req, snap, nops>>

\* a statement of _save / _delete fails or the call is aborted: the exception
\* leaves the transaction block, which rolls back
ProvFail ==
    /\ prov.pc \in {"insert", "schema", "template", "folder_types", "task_types",
                    "drop", "delete_row", "commit"}
    /\ prov' = EndProv(prov, "failed")
    /\ UNCHANGED <<setup, tasks, projects, schemas, project_attrib, folders, hierarchy,
                   exported, versions, had_version, req, snap, nops>>

\* the caller has the result
ProvReturn ==
    /\ prov.pc = "done"
    /\ prov' = IdleProv
    /\ UNCHANGED <<setup, tasks, projects, schemas, project_attrib, folders, hierarchy,
                   exported, versions, had_version, req, snap, nops>>

(* --------------------------- deploy_attributes ------------------------ *)

\* k.strip().lower() for the scope tokens of the definitions
Normalized(k) ==
    CASE k = "P" -> "p"
      [] k = " F" -> "f"
      [] k = "f" -> "f"
      [] k = " X" -> "x"

\* the dict of scope letters; a letter outside it raises KeyError
ScopeNames == [p |-> "project", u |-> "user", f |-> "folder", t |-> "task",
               s |-> "subset", v |-> "version", r |-> "representation"]

AttributeTypes == {"integer", "float", "string", "boolean", "list_of_strings"}

\* the list comprehension over tdata["scope"].split(",") raises KeyError
ScopeFails(tokens) ==
    \E n \in DOMAIN tokens : Normalized(tokens[n]) \notin DOMAIN ScopeNames

ScopeOf(tokens) == [n \in DOMAIN tokens |-> ScopeNames[Normalized(tokens[n])]]

\* the definition is skipped by one of the two `continue`
DefinitionSkipped(d) == ScopeFails(d.scope) \/ d.type \notin AttributeTypes

\* DELETE FROM public.attributes; position = 0
BeginDeploy ==
    /\ deploy.pc = "idle"
    /\ attributes' = {}
    /\ deploy' = [deploy EXCEPT !.pc = "loop", !.i = 1, !.position = 0,
                                !.skipped = {}]
    /\ UNCHANGED <<side, gql, tasks, provisioning, project_attrib, folders, hierarchy,
                   exported, versions, had_version, req, snap, nops>>

\* one round of the loop over DEFAULT_ATTRIBUTES.items(): the definition is
\* skipped or inserted with the current position (which no statement of the
\* loop changes); after the last round the function returns
DeployStep ==
    /\ deploy.pc = "loop"
    /\ IF deploy.i > Len(deploy.defs)
       THEN /\ deploy' = [deploy EXCEPT !.pc = "done"]
            /\ UNCHANGED attributes
       ELSE LET d == deploy.defs[deploy.i]
            IN IF DefinitionSkipped(d)
               THEN /\ deploy' = [deploy EXCEPT !.i = @ + 1,
                                               !.skipped = @ \cup {deploy.i}]
                    /\ UNCHANGED attributes
               ELSE /\ deploy' = [deploy EXCEPT !.i = @ + 1]
                    /\ attributes' = attributes \cup
                          {[name |-> deploy.i, position |-> deploy.position,
                            scope |-> ScopeOf(d.scope), type |-> d.type]}
    /\ UNCHANGED <<side, gql, tasks, provisioning, project_attrib, folders, hierarchy,
                   exported, versions, had_version, req, snap, nops>>

(* ------------------------ parse_folder_attrib_data --------------------- *)

\* attr_limit = "all" for managers only
AttrLimitAllManagerOnly(user) == user.is_manager

\* attr_limit = "all": the user is a manager or has no permission record
AttrLimitAll(user) == user.is_manager \/ ~user.has_record

\* the bag without the deletion of the keys outside attr_limit
ParseFolderAttribDataUnfiltered(own, inherited, project, user) ==
    Overlay(Overlay(project, inherited), own)

\* project bag (or {}), updated with the inherited and then the own bag (None
\* is skipped), then every field outside attr_limit deleted
ParseFolderAttribData(own, inherited, project, user) ==
    LET data == Overlay(Overlay(project, inherited), own)
    IN [k \in Keys |->
          IF data[k] # NoVal /\ ~(AttrLimitAll(user) \/ k \in user.attrib_read)
          THEN NoVal ELSE data[k]]

(* ------------------------------ get_folders ---------------------------- *)

\* a piece of SQL text
Tok(k, v) == [k |-> k, v |-> v]
Quote == Tok("quote", <<"'">>)
Text(cs) == Tok("text", cs)
OrWord == Tok("or", <<" ", "O", "R", " ">>)
AndWord == Tok("and", <<" ", "A", "N", "D", " ">>)
NameILike == Tok("name_ilike", <<"n", "a", "m", "e", " ", "I", "L", "I", "K", "E", " ">>)
PathRegex == Tok("path_regex", <<"p", "a", "t", "h", " ", "~", " ">>)

\* pieces that are plain characters when they stand inside a string literal
WordKinds == {"text", "or", "and", "name_ilike", "path_regex"}

\* folder_access_list(user, project_name, "read"): None for a manager and for
\* a user without permission record, the record's read patterns otherwise
FolderAccessList(user) ==
    IF user.is_manager \/ ~user.has_record
    THEN [none |-> TRUE, patterns |-> {}]
    ELSE [none |-> FALSE, patterns |-> user.read]

\* EntityID.parse of the parent_id argument
EntityIdParse(text) == CASE text = "1" -> 1 [] text = "2" -> 2

\* SQLTool.conditions: the conditions joined by AND
RECURSIVE Conditions(_)
Conditions(conds) ==
    IF Len(conds) = 0 THEN << >>
    ELSE IF Len(conds) = 1 THEN conds[1]
    ELSE conds[1] \o <<AndWord>> \o Conditions(Tail(conds))

\* sql_conditions of get_folders in the order they are appended; name and
\* path_ex are put between quotes as they come
SqlConditions(user, args) ==
    LET access_list == FolderAccessList(user)
    IN (IF ~access_list.none
        THEN << <<Tok("path_like_any", access_list.patterns)>> >> ELSE << >>)
       \o (IF args.ids # {} THEN << <<Tok("id_in", args.ids)>> >> ELSE << >>)
       \o (IF args.parent_id = "none" THEN << >>
           ELSE IF args.parent_id = "root" THEN << <<Tok("parent_is_null", 0)>> >>
           ELSE << <<Tok("parent_eq", EntityIdParse(args.parent_id))>> >>)
       \o (IF args.folder_types # {} THEN << <<Tok("type_in", args.folder_types)>> >>
           ELSE << >>)
       \o (IF Len(args.name) > 0
           THEN << <<NameILike, Quote>> \o args.name \o <<Quote>> >> ELSE << >>)
       \o (IF args.paths # {} THEN << <<Tok("path_in", args.paths)>> >> ELSE << >>)
       \o (IF Len(args.path_ex) > 0
           THEN << <<PathRegex, Quote>> \o args.path_ex \o <<Quote>> >> ELSE << >>)

\* the database reading the text of the WHERE clause: a quote opens or closes
\* a string literal, two quotes inside a literal are one quote character
RECURSIVE Lexed(_, _, _)
Lexed(text, in_string, lit) ==
    IF Len(text) = 0
    THEN IF in_string THEN <<Tok("error", 0)>> ELSE << >>
    ELSE LET h == Head(text)
             t == Tail(text)
         IN IF h.k = "quote"
            THEN IF ~in_string THEN Lexed(t, TRUE, << >>)
                 ELSE IF Len(t) > 0 /\ Head(t).k = "quote"
                      THEN Lexed(Tail(t), TRUE, lit \o <<"'">>)
                 ELSE <<Tok("literal", lit)>> \o Lexed(t, FALSE, << >>)
            ELSE IF in_string
            THEN IF h.k \in WordKinds THEN Lexed(t, TRUE, lit \o h.v)
                 ELSE <<Tok("error", 0)>>
            ELSE IF h.k = "text" THEN <<Tok("error", 0)>>
            ELSE <<h>> \o Lexed(t, FALSE, << >>)

\* the runs of tokens between the tokens of one kind
RECURSIVE SplitAt(_, _)
SplitAt(toks, kind) ==
    IF Len(toks) = 0 THEN << << >> >>
    ELSE LET rest == SplitAt(Tail(toks), kind)
         IN IF Head(toks).k = kind THEN << << >> >> \o rest
            ELSE << <<Head(toks)>> \o Head(rest) >> \o Tail(rest)

\* one comparison of the WHERE clause is well formed
AtomOk(a) ==
    \/ /\ Len(a) = 1
       /\ a[1].k \in {"path_like_any", "id_in", "parent_is_null", "parent_eq",
                      "type_in", "path_in"}
    \/ /\ Len(a) = 2
       /\ a[1].k \in {"name_ilike", "path_regex"}
       /\ a[2].k = "literal"

\* path ~ 're' for expressions made of plain characters and a leading '^'
RegexMatch(p, re) ==
    IF Len(re) > 0 /\ Head(re) = "^"
    THEN Len(p) >= Len(re) - 1 /\ SubSeq(p, 1, Len(re) - 1) = Tail(re)
    ELSE \E i \in 1..(Len(p) + 1) :
            i + Len(re) - 1 <= Len(p) /\ SubSeq(p, i, i + Len(re) - 1) = re

\* the comparison holds for folder f joined with its row of the hierarchy view
AtomHolds(a, f) ==
    CASE a[1].k = "path_like_any" -> \E pat \in a[1].v : Like(hierarchy[f], pat)
      [] a[1].k = "id_in" -> f \in a[1].v
      [] a[1].k = "parent_is_null" -> folders[f].parent_id = NoParent
      [] a[1].k = "parent_eq" -> folders[f].parent_id = a[1].v
      [] a[1].k = "type_in" -> folders[f].folder_type \in a[1].v
      [] a[1].k = "path_in" -> hierarchy[f] \in a[1].v
      [] a[1].k = "name_ilike" -> Like(folders[f].name, a[2].v)
      [] a[1].k = "path_regex" -> RegexMatch(hierarchy[f], a[2].v)

\* the WHERE clause as the database groups it: AND binds tighter than OR
OrGroups(where) ==
    LET groups == SplitAt(Lexed(where, FALSE, << >>), "or")
    IN [g \in DOMAIN groups |-> SplitAt(groups[g], "and")]

\* the statement is rejected
QueryFails(where) ==
    /\ Len(where) > 0
    /\ LET groups == OrGroups(where)
       IN \E g \in DOMAIN groups : \E n \in DOMAIN groups[g] : ~AtomOk(groups[g][n])

\* the WHERE clause selects folder f
Selected(where, f) ==
    \/ Len(where) = 0
    \/ LET groups == OrGroups(where)
       IN \E g \in DOMAIN groups :
             \A n \in DOMAIN groups[g] : AtomHolds(groups[g][n], f)

\* HAVING COUNT(children.id) > 0  /  = 0
Having(has_children, f) ==
    LET children == {c \in FolderIds : folders[c].exists /\ folders[c].parent_id = f}
    IN CASE has_children = "none" -> TRUE
         [] has_children = "yes" -> children # {}
         [] has_children = "no" -> children = {}

\* get_folders up to the text of the query
BeginGetFolders(user, args) ==
    /\ gql.pc = "idle"
    /\ gql' = [IdleGql EXCEPT !.pc = "query", !.user = user,
                              !.where = Conditions(SqlConditions(user, args)),
                              !.has_children = args.has_children]
    /\ UNCHANGED <<side, attributes, deploy, tasks, provisioning, project_attrib, folders,
                   hierarchy, exported, versions, had_version, req, snap, nops>>

\* resolve(): the query is run
RunQuery ==
    /\ gql.pc = "query"
    /\ IF QueryFails(gql.where)
       THEN gql' = [gql EXCEPT !.pc = "done", !.failed = TRUE]
       ELSE gql' = [gql EXCEPT !.pc = "resolve",
                       !.records = {f \in FolderIds :
                                       /\ folders[f].exists
                                       /\ Selected(gql.where, f)
                                       /\ Having(gql.has_children, f)}]
    /\ UNCHANGED <<side, attributes, deploy, tasks, provisioning, project_attrib, folders,
                   hierarchy, exported, versions, had_version, req, snap, nops>>

\* folder_from_record for every record of the result; the record carries the
\* inherited and the project attributes or NULL for them
ResolveNodes(with_inherited, with_project) ==
    /\ gql.pc = "resolve"
    /\ LET inherited(f) ==
               IF with_inherited /\ \E row \in exported : row.folder_id = f
               THEN (CHOOSE row \in exported : row.folder_id = f).attrib
               ELSE EmptyBag
           project == IF with_project THEN project_attrib ELSE EmptyBag
       IN gql' = [gql EXCEPT
                    !.pc = "done",
                    !.data = [f \in FolderIds |->
                                IF f \in gql.records
                                THEN Overlay(Overlay(project, inherited(f)),
                                             folders[f].attrib)
                                ELSE EmptyBag],
                    !.nodes = [f \in FolderIds |->
                                IF f \in gql.records
                                THEN ParseFolderAttribData(folders[f].attrib,
                                         inherited(f), project, gql.user)
                                ELSE EmptyBag]]
    /\ UNCHANGED <<side, attributes, deploy, tasks, provisioning, project_attrib, folders,
                   hierarchy, exported, versions, had_version, req, snap, nops>>

(* ------------- the join with public.projects (p.name ILIKE) ------------- *)

\* the rows of public.projects the join  ON p.name ILIKE name  yields
JoinedProjects(rows, name) == {p \in rows : Like(p.name, name)}

\* FolderEntity.load of folder f of project name: one record per joined
\* projects row and joined cache row; load returns on the first record
IsolationLoad(name, f) ==
    /\ isolation.pc = "idle"
    /\ folders[f].exists
    /\ hierarchy[f] # << >>
    /\ LET ia == {e \in exported : e.folder_id = folders[f].parent_id}
           joined == IF ia = {} THEN { <<FALSE, EmptyBag>> }
                     ELSE { <<TRUE, e.attrib>> : e \in ia }
           records ==
               { [project |-> p.name,
                  attrib |-> LoadAttrib(p.attrib, j[1], j[2], folders[f].attrib)]
                 : p \in JoinedProjects(isolation.rows, name), j \in joined }
       IN \E first \in records :
             isolation' = [isolation EXCEPT !.pc = "loaded", !.name = name,
                                            !.folder = f, !.records = records,
                                            !.attrib = first.attrib]
    /\ UNCHANGED <<base, aux, presets, session, users>>

\* the SELECT of FolderEntity.commit for project name: the rows of QueryRows
\* once per joined projects row
IsolationQuery(name) ==
    /\ isolation.pc = "idle"
    /\ isolation' = [isolation EXCEPT
          !.pc = "queried", !.name = name,
          !.records =
              UNION { { [project |-> p.name, id |-> row.id, path |-> row.path,
                         project_attrib |-> p.attrib]
                        : row \in QueryRows(folders, hierarchy, exported, p.attrib) }
                      : p \in JoinedProjects(isolation.rows, name) }]
    /\ UNCHANGED <<base, aux, presets, session, users>>

(* --------------------------- aux_table_update -------------------------- *)

\* None as the data of a key of update_data
NoData == [null |-> TRUE, icon |-> "", name |-> NoType]

\* the keys of update_data (a dict, kept in insertion order)
AuxKeys(update_data) == {update_data[j].key : j \in DOMAIN update_data}

\* DELETE FROM table WHERE name = $1
AuxDelete(table, name) == {r \in table : r.name # name}

\* the loop at the end of the body of the loop over update_data:
\* for name in old_data: if name not in update_data: DELETE
AuxDeleteMissing(table, old_data, update_data) ==
    {r \in table : r.name \notin old_data \ AuxKeys(update_data)}

\* the statement the body of the loop runs for item e of update_data:
\* the table after it, or the table unchanged with failed set when the
\* statement breaks a constraint of the table
AuxStatement(table, old_data, e, unique, not_null) ==
    IF e.key \in old_data
    THEN IF e.data.null
         THEN [failed |-> FALSE, table |-> AuxDelete(table, e.key)]
         ELSE IF e.data.name # NoType
         THEN LET hit == {r \in table : r.name = e.key}
                  renamed == {[name |-> e.data.name,
                               data |-> [e.data EXCEPT !.name = NoType]] : r \in hit}
                  clash == /\ hit # {}
                           /\ \/ Cardinality(hit) > 1
                              \/ \E r \in table \ hit : r.name = e.data.name
              IN IF unique /\ clash
                 THEN [failed |-> TRUE, table |-> table]
                 ELSE [failed |-> FALSE, table |-> (table \ hit) \cup renamed]
         ELSE [failed |-> FALSE,
               table |-> {IF r.name = e.key THEN [r EXCEPT !.data = e.data] ELSE r
                          : r \in table}]
    ELSE IF \/ unique /\ \E r \in table : r.name = e.key
            \/ not_null /\ e.data.null
         THEN [failed |-> TRUE, table |-> table]
         ELSE [failed |-> FALSE,
               table |-> table \cup {[name |-> e.key, data |-> e.data]}]

\* aux_table_update(conn, table, update_data) begins: old_data is read
AuxTableUpdate(update_data) ==
    /\ aux.pc \in {"idle", "done", "error"}
    /\ aux' = [aux EXCEPT !.pc = "loop", !.before = aux.table,
                          !.old_data = {r.name : r \in aux.table},
                          !.update_data = update_data, !.i = 1]
    /\ UNCHANGED <<base, isolation, presets, session, users>>

\* one round of the loop over update_data.items(), or its end; a failed
\* statement ends the transaction of _save, which is rolled back
AuxRound ==
    /\ aux.pc = "loop"
    /\ IF aux.i > Len(aux.update_data)
       THEN aux' = [aux EXCEPT !.pc = "done"]
       ELSE LET out == AuxStatement(aux.table, aux.old_data, aux.update_data[aux.i],
                                    aux.unique, aux.not_null)
            IN IF out.failed
               THEN aux' = [aux EXCEPT !.pc = "error", !.table = aux.before]
               ELSE aux' = [aux EXCEPT
                              !.i = @ + 1,
                              !.table = AuxDeleteMissing(out.table, aux.old_data,
                                                         aux.update_data)]
    /\ UNCHANGED <<base, isolation, presets, session, users>>

(* -------------------------- set_primary_preset ------------------------- *)

\* the names of the rows with is_primary = TRUE
PrimaryRows(rows) == {r.name : r \in {x \in rows : x.is_primary}}

\* the rows a transaction other than c has written and not committed
PresetLocked(c) ==
    UNION { {w.name : w \in presets.calls[d].tx} : d \in Callers \ {c} }

\* the table as call c reads it: the committed rows under its own writes
PresetView(c) ==
    {IF \E w \in presets.calls[c].tx : w.name = r.name
     THEN CHOOSE w \in presets.calls[c].tx : w.name = r.name
     ELSE r : r \in presets.rows}

\* tx with row name written as is_primary = value
PresetWrite(tx, name, value) ==
    {w \in tx : w.name # name} \cup {[name |-> name, is_primary |-> value]}

\* the request arrives: Postgres.acquire(), conn.transaction()
BeginSetPrimary(c, preset_name) ==
    /\ presets.calls[c].pc = "idle"
    /\ LET busy == \E d \in Callers \ {c} : presets.calls[d].pc # "idle"
       IN presets' = [presets EXCEPT
             !.calls = [d \in Callers |->
                          IF d = c
                          THEN [IdleCall EXCEPT !.pc = "clear",
                                                !.preset_name = preset_name,
                                                !.alone = ~busy]
                          ELSE [presets.calls[d] EXCEPT !.alone = @ /\ ~busy]]]
    /\ UNCHANGED <<base, isolation, aux, session, users>>

\* UPDATE anatomy_presets SET is_primary = FALSE WHERE is_primary = TRUE
\* when no row it chose is locked
ClearPrimary(c) ==
    /\ presets.calls[c].pc = "clear"
    /\ LET chosen == PrimaryRows(PresetView(c))
       IN /\ chosen \cap PresetLocked(c) = {}
          /\ presets' = [presets EXCEPT
                !.calls[c].pc = "set",
                !.calls[c].tx = {[name |-> n, is_primary |-> FALSE] : n \in chosen}]
    /\ UNCHANGED <<base, isolation, aux, session, users>>

\* the same UPDATE when a row it chose is locked: it waits for the lock
ClearPrimaryBlocked(c) ==
    /\ presets.calls[c].pc = "clear"
    /\ LET chosen == PrimaryRows(PresetView(c))
       IN /\ chosen \cap PresetLocked(c) # {}
          /\ presets' = [presets EXCEPT !.calls[c].pc = "clear_wait",
                                        !.calls[c].targets = chosen]
    /\ UNCHANGED <<base, isolation, aux, session, users>>

\* the lock is released: the UPDATE goes on with the rows it had chosen, each
\* checked again against WHERE is_primary = TRUE in its committed version
ClearPrimaryResumed(c) ==
    /\ presets.calls[c].pc = "clear_wait"
    /\ presets.calls[c].targets \cap PresetLocked(c) = {}
    /\ presets' = [presets EXCEPT
          !.calls[c].pc = "set",
          !.calls[c].targets = {},
          !.calls[c].tx = {[name |-> n, is_primary |-> FALSE]
                           : n \in presets.calls[c].targets
                                   \cap PrimaryRows(presets.rows)}]
    /\ UNCHANGED <<base, isolation, aux, session, users>>

\* UPDATE anatomy_presets SET is_primary = TRUE WHERE name = $1, once the row
\* is not locked
SetPrimary(c) ==
    /\ presets.calls[c].pc = "set"
    /\ LET name == presets.calls[c].preset_name
       IN /\ name \notin PresetLocked(c)
          /\ presets' = [presets EXCEPT
                !.calls[c].pc = "commit",
                !.calls[c].tx =
                    IF \E r \in presets.rows : r.name = name
                    THEN PresetWrite(@, name, TRUE)
                    ELSE @]
    /\ UNCHANGED <<base, isolation, aux, session, users>>

\* the transaction block ends: the rows written are committed, 200 is returned
CommitSetPrimary(c) ==
    /\ presets.calls[c].pc = "commit"
    /\ presets' = [presets EXCEPT
          !.rows = PresetView(c),
          !.solo = IF presets.calls[c].alone THEN presets.calls[c].preset_name
                   ELSE NoPreset,
          !.calls[c] = IdleCall]
    /\ UNCHANGED <<base, isolation, aux, session, users>>

(* ---------------------------- dep_current_user ------------------------ *)

\* the endpoint check of the mutant: managers are checked like anyone else
EndpointRejectedManagersToo(is_manager, perms, endpoint) ==
    /\ perms.has_record
    /\ perms.is_list
    /\ endpoint \notin perms.endpoints

\* if not user.is_manager: if (perms := user.permissions(project_name)) is not
\* None: if type(perms.endpoints) is list and endpoint not in perms.endpoints
EndpointRejected(is_manager, perms, endpoint) ==
    /\ ~is_manager
    /\ perms.has_record
    /\ perms.is_list
    /\ endpoint \notin perms.endpoints

\* a request for endpoint arrives
BeginRequest(has_token, valid, is_manager, perms, endpoint) ==
    /\ session.pc \in {"idle", "done"}
    /\ session' = [IdleSession EXCEPT
          !.pc = "token", !.has_token = has_token, !.valid = valid,
          !.is_manager = is_manager, !.perms = perms, !.endpoint = endpoint]
    /\ UNCHANGED <<base, isolation, aux, presets, users>>

\* dep_access_token: no access token in the header raises Unauthorized
DepAccessToken ==
    /\ session.pc = "token"
    /\ session' = IF session.has_token
                  THEN [session EXCEPT !.pc = "check"]
                  ELSE [session EXCEPT !.pc = "done", !.result = "Unauthorized"]
    /\ UNCHANGED <<base, isolation, aux, presets, users>>

\* Session.check; without session data Unauthorized is raised, with it the
\* request is counted
SessionCheck ==
    /\ session.pc = "check"
    /\ session' = IF session.valid
                  THEN [session EXCEPT !.pc = "user", !.requests = @ + 1]
                  ELSE [session EXCEPT !.pc = "done", !.result = "Unauthorized"]
    /\ UNCHANGED <<base, isolation, aux, presets, users>>

\* the user is built from the session and checked against the endpoint
DepCurrentUser ==
    /\ session.pc = "user"
    /\ session' = [session EXCEPT
          !.pc = "done",
          !.result = IF EndpointRejected(session.is_manager, session.perms,
                                         session.endpoint)
                     THEN "Unauthorized" ELSE "user"]
    /\ UNCHANGED <<base, isolation, aux, presets, users>>

(* ------------------------------ users API ------------------------------ *)

\* save of a new entity as an insert that replaces a row of the same name
SaveNewUserUpsert(rows, name, entity) ==
    [failed |-> FALSE, rows |-> [rows EXCEPT ![name] = entity]]

\* UserEntity.save of an entity that is new: insert; a row of the same name
\* is a uniqueness violation
SaveNewUser(rows, name, entity) ==
    IF rows[name].exists
    THEN [failed |-> TRUE, rows |-> rows]
    ELSE [failed |-> FALSE, rows |-> [rows EXCEPT ![name] = entity]]

\* UserEntity.save of a loaded entity: update of the row of its name
SaveLoadedUser(rows, name, entity) ==
    IF rows[name].exists THEN [rows EXCEPT ![name] = entity] ELSE rows

\* the loop of the mutant: an empty list is stored like any other
AssignRolesKeepEmpty(role_set, roles) ==
    LET named(q) == {j \in DOMAIN roles : roles[j].project = q}
    IN [q \in RoleProjects |->
          IF named(q) = {} THEN role_set[q]
          ELSE [has |-> TRUE,
                roles |-> roles[CHOOSE j \in named(q) : \A k \in named(q) : k <= j].roles]]

\* for rconf in patch_data.roles: an empty list deletes the entry of the
\* project if there is one, any other list is stored
RECURSIVE AssignRoles(_, _)
AssignRoles(role_set, roles) ==
    IF Len(roles) = 0 THEN role_set
    ELSE LET rconf == Head(roles)
             next == IF rconf.roles = {}
                     THEN IF role_set[rconf.project].has
                          THEN [role_set EXCEPT ![rconf.project] = NoRoles]
                          ELSE role_set
                     ELSE [role_set EXCEPT
                             ![rconf.project] = [has |-> TRUE, roles |-> rconf.roles]]
         IN AssignRoles(next, Tail(roles))

\* a request arrives with its current user; the responses of the requests
\* that have ended are no longer looked at
BeginUserRequest(c, kind, is_manager, user_name, put_data, patch_data) ==
    /\ users.reqs[c].pc \in {"idle", "done"}
    /\ users' = [users EXCEPT
          !.reqs = [d \in Callers |->
                      IF d = c
                      THEN [IdleUserReq EXCEPT
                              !.pc = "manager", !.kind = kind,
                              !.is_manager = is_manager, !.user_name = user_name,
                              !.put_data = put_data, !.patch_data = patch_data]
                      ELSE IF users.reqs[d].pc = "done" THEN IdleUserReq
                      ELSE users.reqs[d]]]
    /\ UNCHANGED <<base, isolation, aux, presets, session>>

\* if not user.is_manager: raise ForbiddenException
CheckManager(c) ==
    /\ users.reqs[c].pc = "manager"
    /\ users' = [users EXCEPT
          !.reqs[c] = IF users.reqs[c].is_manager
                      THEN [@ EXCEPT !.pc = "load"]
                      ELSE [@ EXCEPT !.pc = "done", !.status = "Forbidden"]]
    /\ UNCHANGED <<base, isolation, aux, presets, session>>

\* UserEntity.load(user_name) and what the handler does with the outcome up
\* to its save or delete
LoadUser(c) ==
    /\ users.reqs[c].pc = "load"
    /\ LET q == users.reqs[c]
           row == users.rows[q.user_name]
       IN users' = [users EXCEPT
             !.reqs[c] =
                 IF q.kind = "create_user"
                 THEN IF row.exists
                      THEN [q EXCEPT !.pc = "done", !.status = "409",
                                     !.loaded = TRUE, !.found = row]
                      ELSE [q EXCEPT !.pc = "save", !.loaded = TRUE,
                                     !.entity = [NoUserRow EXCEPT
                                                   !.exists = TRUE,
                                                   !.data = q.put_data]]
                 ELSE IF ~row.exists
                 THEN [q EXCEPT !.pc = "done", !.status = "NotFound",
                                !.loaded = TRUE]
                 ELSE IF q.kind = "delete_user"
                 THEN [q EXCEPT !.pc = "delete", !.loaded = TRUE, !.found = row,
                                !.entity = row]
                 ELSE [q EXCEPT !.pc = "save", !.loaded = TRUE, !.found = row,
                                !.entity = [row EXCEPT
                                              !.roles = AssignRoles(row.roles,
                                                                    q.patch_data)]]]
    /\ UNCHANGED <<base, isolation, aux, presets, session>>

\* await nuser.save() / await target_user.save(), and the response
SaveUser(c) ==
    /\ users.reqs[c].pc = "save"
    /\ LET q == users.reqs[c]
           out == SaveNewUser(users.rows, q.user_name, q.entity)
       IN IF q.kind = "create_user"
          THEN users' = [users EXCEPT
                  !.rows = out.rows,
                  !.reqs[c] = IF out.failed
                              THEN [q EXCEPT !.pc = "done",
                                             !.status = "ConstraintViolation"]
                              ELSE [q EXCEPT !.pc = "done", !.status = "201",
                                             !.saved = TRUE,
                                             !.before = users.rows[q.user_name]]]
          ELSE users' = [users EXCEPT
                  !.rows = SaveLoadedUser(users.rows, q.user_name, q.entity),
                  !.reqs[c] = [q EXCEPT !.pc = "done", !.status = "204",
                                        !.saved = TRUE,
                                        !.before = users.rows[q.user_name]]]
    /\ UNCHANGED <<base, isolation, aux, presets, session>>

\* await target_user.delete(), Response(204)
DeleteUser(c) ==
    /\ users.reqs[c].pc = "delete"
    /\ users' = [users EXCEPT
          !.rows[users.reqs[c].user_name] = NoUserRow,
          !.reqs[c] = [@ EXCEPT !.pc = "done", !.status = "204", !.saved = TRUE,
                                !.before = users.rows[users.reqs[c].user_name]]]
    /\ UNCHANGED <<base, isolation, aux, presets, session>>

(* --------------------------- TaskEntity.load -------------------------- *)

\* attrib = {}; attrib |= inherited_attrib when the LEFT JOIN found a row;
\* attrib |= record["attrib"]   (the SELECT has no project_attrib column)
TaskLoadAttrib(project, has_ia, ia, own) ==
    Overlay(IF has_ia THEN ia ELSE EmptyBag, own)

\* cls.from_record(payload={**record, "attrib": attrib}, own_attrib=...)
LoadedTask(t, has_ia, ia) ==
    [NoEntity EXCEPT
        !.id = t, !.parent_id = tasks[t].folder_id,
        !.attrib = TaskLoadAttrib(project_attrib, has_ia, ia, tasks[t].attrib),
        !.own_attrib = OwnKeys(tasks[t].attrib),
        !.exists = TRUE]

\* the cache rows the LEFT JOIN finds for the task's folder
TaskInherited(t) == {e \in exported : e.folder_id = tasks[t].folder_id}

\* TaskEntity.load(project_name, t): no record is NotFound; a record with a
\* NULL inherited_attrib evaluates record["parent_id"], a column the SELECT
\* does not have, and the KeyError leaves load
BeginGetTask(r, t) ==
    /\ req[r].pc = "idle"
    /\ LET rec == [IdleReq EXCEPT !.kind = "get_task", !.ent.id = t]
       IN IF ~tasks[t].exists
          THEN req' = [req EXCEPT ![r] = Ended(rec, "notfound")]
          ELSE IF TaskInherited(t) = {}
          THEN req' = [req EXCEPT ![r] =
                         Ended([rec EXCEPT !.ent.parent_id = tasks[t].folder_id,
                                           !.ent.exists = TRUE], "error")]
          ELSE \E e \in TaskInherited(t) :
                  req' = [req EXCEPT ![r] =
                            Ended([rec EXCEPT !.ent = LoadedTask(t, TRUE, e.attrib)], "ok")]
    /\ UNCHANGED <<setup, tasks, provisioning, project_attrib, folders, hierarchy,
                   exported, versions, had_version, snap, nops>>

\* a task with own attributes a is created on folder f (the foreign key
\* tasks.folder_id holds)
CreateTask(t, f, a) ==
    /\ ~tasks[t].exists
    /\ folders[f].exists
    /\ tasks' = [tasks EXCEPT ![t] = [exists |-> TRUE, folder_id |-> f, attrib |-> a]]
    /\ UNCHANGED <<setup, provisioning, project_attrib, folders, hierarchy, exported,
                   versions, had_version, req, snap, nops>>

(* ----------------------- inputs of the requests ----------------------- *)

\* the attribute bags requests carry
PostBags == {EmptyBag, Fps(30)}

\* the folders a request can name as new parent of f without closing a cycle
ParentsFor(f) ==
    {g \in FolderIds : folders[g].exists /\ f \notin Chain(folders, g, MaxFolders)}

\* PATCH bodies: at most one structural field (None stands for a field that is
\* absent or null), and attributes
UpdatePosts(f) ==
    { [NoPost EXCEPT !.attrib = a] : a \in PostBags }
    \cup { [NoPost EXCEPT !.name = n, !.attrib = a] : n \in Names, a \in PostBags }
    \cup { [NoPost EXCEPT !.folder_type = t, !.attrib = a] : t \in FolderTypes, a \in PostBags }
    \cup { [NoPost EXCEPT !.parent_id = p, !.attrib = a] : p \in ParentsFor(f), a \in PostBags }

Step(r) ==
    \/ Check(r)
    \/ DeleteCache(r)
    \/ WriteRow(r)
    \/ Refresh(r)
    \/ Query(r)
    \/ InsertRow(r)
    \/ TxCommit(r)
    \/ Fail(r)
    \/ Respond(r)

\* one request at a time
Next ==
    \/ /\ Idle
       /\ \/ \E user \in Users, name \in Names, a \in PostBags :
                \E p \in {NoParent} \cup {g \in FolderIds : folders[g].exists} :
                    BeginCreate(1, user, name, p, a)
          \/ \E user \in Users, f \in FolderIds :
                \E post \in UpdatePosts(f) : BeginUpdate(1, user, f, post)
          \/ \E f \in FolderIds : CreateVersion(f)
          \/ \E f \in FolderIds : DeleteVersion(f)
    \/ Step(1)

Spec == Init /\ [][Next]_vars


(* ---------------- FolderEntity.load as a function of the tables --------- *)

\* any project attributes, any own attributes, and any (or no) cache row of
\* the parent
InitLoad ==
    /\ project_attrib \in Bags
    /\ \E own1 \in {EmptyBag, Fps(30)}, own2 \in Bags : folders = InitFolders(own1, own2)
    /\ hierarchy = HierarchyOf(folders)
    /\ \E rows \in {{}} \cup { {[folder_id |-> 1, path |-> <<"a", "s">>, attrib |-> a]}
                              : a \in Bags } :
          exported = rows
    /\ versions = [f \in FolderIds |-> 0]
    /\ had_version = [f \in FolderIds |-> FALSE]
    /\ req = [r \in Requests |-> IdleReq]
    /\ snap = [r \in Requests |-> NoSnap]
    /\ nops = 0
    /\ tasks = [t \in TaskIds |-> NoTask]
    /\ projects = {ThisProject}
    /\ schemas = [n \in ProjectNames |->
                    IF n = ThisProject THEN DemoSchema ELSE NoSchema]
    /\ prov = IdleProv
    /\ attributes = {}
    /\ deploy = IdleDeploy(<< >>)
    /\ gql = IdleGql
    /\ SideIdle

NextLoad ==
    \/ \E user \in Users, f \in FolderIds : BeginGet(1, user, f)
    \/ Respond(1)

SpecLoad == InitLoad /\ [][NextLoad]_vars

(* ------------------- two update_folder requests at once ----------------- *)

Manager == [is_manager |-> TRUE, grant |-> TRUE]

ConcPosts ==
    { [NoPost EXCEPT !.attrib = Fps(30)],
      [NoPost EXCEPT !.name = <<"a", "s", "2">>],
      [NoPost EXCEPT !.name = <<"a", "_">>] }

NextConc ==
    \E r \in Requests :
        \/ \E f \in FolderIds, post \in ConcPosts : BeginUpdate(r, Manager, f, post)
        \/ Step(r)

SpecConc == Init /\ [][NextConc]_vars


(* ------- folders, tasks and the attributes of the project together ------ *)

\* the attributes ProjectEntity.save is called with
ProjectPosts ==
    { ProjectDefaults,
      [k \in Keys |-> IF k = "fps" THEN 25 ELSE 30] }

\* requests of a manager, one at a time, and saves of the project between them
NextAttrib ==
    \/ /\ Idle
       /\ \/ \E a \in ProjectPosts : SaveProject(a)
          \/ \E p \in {g \in FolderIds : folders[g].exists} :
                BeginCreate(1, Manager, <<"a", "_">>, p, EmptyBag)
          \/ \E f \in FolderIds :
                BeginUpdate(1, Manager, f, [NoPost EXCEPT !.attrib = Fps(30)])
          \/ \E t \in TaskIds, f \in FolderIds, a \in PostBags : CreateTask(t, f, a)
          \/ \E t \in TaskIds : BeginGetTask(1, t)
    \/ Step(1)

SpecAttrib == Init /\ [][NextAttrib]_vars


(* ------------- FolderEntity.commit as a function of the tables ---------- *)

\* folder 3, if it exists, is "a_" under folder 1 or under folder 2
CommitFolders(own2, p3) ==
    [InitFolders(EmptyBag, own2) EXCEPT
        ![3] = IF p3 = NoParent THEN NoRow
               ELSE [exists |-> TRUE, name |-> <<"a", "_">>, folder_type |-> "Asset",
                     parent_id |-> p3, attrib |-> EmptyBag]]

\* a cache row under the path of folder 2 that carries the id of the folder
\* that had this path before (left behind by interleaved update_folder requests)
StaleRows(fs) ==
    { [folder_id |-> 3, path |-> PathOf(fs, 2), attrib |-> ProjectDefaults] }

\* the tables with any part of the cache missing (failed create_folder
\* requests) or stale; the cache is keyed by path
InitCommit ==
    /\ project_attrib = ProjectDefaults
    /\ \E own2 \in {EmptyBag, Fps(30)}, p3 \in {NoParent, 1, 2} :
          folders = CommitFolders(own2, p3)
    /\ hierarchy = HierarchyOf(folders)
    /\ \E rows \in SUBSET (CacheOf(folders, project_attrib) \cup StaleRows(folders)) :
          /\ \A e1, e2 \in rows : e1.path = e2.path => e1 = e2
          /\ exported = rows
    /\ versions = [f \in FolderIds |-> 0]
    /\ had_version = [f \in FolderIds |-> FALSE]
    /\ req = [r \in Requests |-> IdleReq]
    /\ snap = [r \in Requests |-> NoSnap]
    /\ nops = 0
    /\ tasks = [t \in TaskIds |-> NoTask]
    /\ projects = {ThisProject}
    /\ schemas = [n \in ProjectNames |->
                    IF n = ThisProject THEN DemoSchema ELSE NoSchema]
    /\ prov = IdleProv
    /\ attributes = {}
    /\ deploy = IdleDeploy(<< >>)
    /\ gql = IdleGql
    /\ SideIdle

NextCommit ==
    \/ /\ Idle
       /\ \/ \E p \in {g \in FolderIds : folders[g].exists} :
                BeginCreate(1, Manager, <<"a", "_">>, p, EmptyBag)
          \/ \E f \in FolderIds :
                BeginUpdate(1, Manager, f, [NoPost EXCEPT !.attrib = Fps(30)])
    \/ Step(1)

SpecCommit == InitCommit /\ [][NextCommit]_vars


(* -------------------- projects created and deleted --------------------- *)

NextProvision ==
    \/ \E name \in OtherProjects, ft \in SUBSET TypeNames, tt \in SUBSET TypeNames :
          BeginSave(name, ft, tt)
    \/ \E name \in OtherProjects : BeginDelete(name)
    \/ SaveStep
    \/ DeleteStep
    \/ ProvCommit
    \/ ProvFail
    \/ ProvReturn

SpecProvision == Init /\ [][NextProvision]_vars


(* ----------------- deploy_attributes on any definitions ----------------- *)

\* definitions with a good or an unknown scope token and a good or an unknown
\* type; the name of a definition is its place in the dict
Definitions ==
    { [scope |-> sc, type |-> ty] :
        sc \in { <<"P", " F">>, <<"f">>, <<"P", " X">> },
        ty \in { "integer", "string", "color" } }

RECURSIVE SeqsUpTo(_, _)
SeqsUpTo(S, n) ==
    IF n = 0 THEN { << >> }
    ELSE SeqsUpTo(S, n - 1) \cup
         { Append(q, x) : q \in { t \in SeqsUpTo(S, n - 1) : Len(t) = n - 1 }, x \in S }

InitDeploy ==
    /\ project_attrib = ProjectDefaults
    /\ folders = InitFolders(EmptyBag, EmptyBag)
    /\ hierarchy = HierarchyOf(folders)
    /\ exported = CacheOf(folders, project_attrib)
    /\ versions = [f \in FolderIds |-> 0]
    /\ had_version = [f \in FolderIds |-> FALSE]
    /\ req = [r \in Requests |-> IdleReq]
    /\ snap = [r \in Requests |-> NoSnap]
    /\ nops = 0
    /\ tasks = [t \in TaskIds |-> NoTask]
    /\ projects = {ThisProject}
    /\ schemas = [n \in ProjectNames |->
                    IF n = ThisProject THEN DemoSchema ELSE NoSchema]
    /\ prov = IdleProv
    /\ attributes = {}
    /\ \E defs \in SeqsUpTo(Definitions, MaxDefs) : deploy = IdleDeploy(defs)
    /\ gql = IdleGql
    /\ SideIdle

NextDeploy == BeginDeploy \/ DeployStep

SpecDeploy == InitDeploy /\ [][NextDeploy]_vars


(* ------------------------- listings of the folders ---------------------- *)

\* the tree "as", "as/as", "a_" with own attributes on every folder
ListFolders ==
    [InitFolders(Fps(30), [k \in Keys |-> IF k = "fps" THEN NoVal ELSE 25]) EXCEPT
        ![3] = [exists |-> TRUE, name |-> <<"a", "_">>, folder_type |-> "Shot",
                parent_id |-> NoParent, attrib |-> Fps(30)]]

\* managers and non-managers, with and without permission record
ListUsers ==
    { [is_manager |-> mg, has_record |-> TRUE, attrib_read |-> ar, read |-> rd] :
        mg \in BOOLEAN, ar \in { {}, {"fps"} },
        rd \in { { <<"a", "s", "/", "%">> },
                 { <<"a", "s">>, <<"a", "s", "2", "/", "%">> } } }
    \cup { [NoListUser EXCEPT !.is_manager = mg] : mg \in BOOLEAN }

\* the arguments of the listing; name and path_ex are any text
ListArgs ==
    [ ids : { {}, {1, 3} },
      parent_id : { "none", "root", "1" },
      folder_types : { {}, {"Asset"} },
      name : { << >>, <<Text(<<"a", "s">>)>>, <<Text(<<"a", "_">>)>>,
               <<Text(<<"a", "s">>), Quote, OrWord, NameILike, Quote,
                 Text(<<"%">>)>> },
      paths : { {}, { <<"a", "s", "/", "a", "s">>, <<"a", "_">> } },
      path_ex : { << >>, <<Text(<<"^", "a", "s">>)>>,
                  <<Text(<<"s">>), Quote, Quote, Text(<<"a">>)>>,
                  <<Text(<<"a">>), Quote, Text(<<"s">>)>> },
      has_children : { "none", "yes" } ]

InitList ==
    /\ project_attrib = ProjectDefaults
    /\ folders = ListFolders
    /\ hierarchy = HierarchyOf(folders)
    /\ exported = CacheOf(folders, project_attrib)
    /\ versions = [f \in FolderIds |-> 0]
    /\ had_version = [f \in FolderIds |-> FALSE]
    /\ req = [r \in Requests |-> IdleReq]
    /\ snap = [r \in Requests |-> NoSnap]
    /\ nops = 0
    /\ tasks = [t \in TaskIds |-> NoTask]
    /\ projects = {ThisProject}
    /\ schemas = [n \in ProjectNames |->
                    IF n = ThisProject THEN DemoSchema ELSE NoSchema]
    /\ prov = IdleProv
    /\ attributes = {}
    /\ deploy = IdleDeploy(<< >>)
    /\ gql = IdleGql
    /\ SideIdle

NextList ==
    \/ \E user \in ListUsers, args \in ListArgs : BeginGetFolders(user, args)
    \/ RunQuery
    \/ \E wi \in BOOLEAN, wp \in BOOLEAN : ResolveNodes(wi, wp)

SpecList == InitList /\ [][NextList]_vars


(* ------------- update_folder while a Version is being created ----------- *)

\* an update_folder of a manager and the creation of Versions by other
\* connections, in any order
NextRace ==
    \/ \E f \in FolderIds : \E post \in UpdatePosts(f) : BeginUpdate(1, Manager, f, post)
    \/ Step(1)
    \/ \E f \in FolderIds : CreateVersion(f)

SpecRace == Init /\ [][NextRace]_vars


(* ------- update_folder of a folder while a child is created under it ----- *)

\* a PATCH of the attributes of a folder and a POST of a new folder, by
\* managers, at the same time
NextChild ==
    \/ \E f \in FolderIds, a \in PostBags :
          BeginUpdate(1, Manager, f, [NoPost EXCEPT !.attrib = a])
    \/ \E name \in Names, a \in PostBags :
          \E p \in {NoParent} \cup {g \in FolderIds : folders[g].exists} :
              BeginCreate(2, Manager, name, p, a)
    \/ \E r \in Requests : Step(r)

SpecChild == Init /\ [][NextChild]_vars


(* ----------- update_folder requests on two subtrees at a time ------------ *)

\* the roots "as" (with child "as/as") and "as2"
TwoSubtrees ==
    [InitFolders(EmptyBag, EmptyBag) EXCEPT
        ![3] = [exists |-> TRUE, name |-> <<"a", "s", "2">>, folder_type |-> "Asset",
                parent_id |-> NoParent, attrib |-> EmptyBag]]

InitDisjoint ==
    /\ project_attrib = ProjectDefaults
    /\ folders = TwoSubtrees
    /\ hierarchy = HierarchyOf(folders)
    /\ exported = CacheOf(folders, project_attrib)
    /\ versions = [f \in FolderIds |-> 0]
    /\ had_version = [f \in FolderIds |-> FALSE]
    /\ req = [r \in Requests |-> IdleReq]
    /\ snap = [r \in Requests |-> NoSnap]
    /\ nops = 0
    /\ tasks = [t \in TaskIds |-> NoTask]
    /\ projects = {ThisProject}
    /\ schemas = [n \in ProjectNames |->
                    IF n = ThisProject THEN DemoSchema ELSE NoSchema]
    /\ prov = IdleProv
    /\ attributes = {}
    /\ deploy = IdleDeploy(<< >>)
    /\ gql = IdleGql
    /\ SideIdle

\* PATCH requests of managers that set attributes, at the same time, with
\* DELETE statements that wait for each other
NextDisjoint ==
    \E r \in Requests :
        \/ \E f \in FolderIds, a \in PostBags :
              BeginUpdate(r, Manager, f, [NoPost EXCEPT !.attrib = a])
        \/ Step(r)
        \/ DeleteCacheBlocked(r)
        \/ DeleteCacheResumed(r)

SpecDisjoint == InitDisjoint /\ [][NextDisjoint]_vars


(* --------------- projects whose names match each other ----------------- *)

\* the attributes of the projects row of a name
AttribOfProject(name) ==
    IF name = <<"a", "_">> THEN ProjectDefaults
    ELSE IF name = <<"a", "s">> THEN Fps(30)
    ELSE [k \in Keys |-> IF k = "fps" THEN NoVal ELSE 30]

\* the folders are those of project name, with any part of the cache built;
\* public.projects holds its row and any rows of other names
InitIsolation ==
    /\ \E name \in Names, others \in SUBSET Names, own2 \in {EmptyBag, Fps(30)} :
          /\ project_attrib = AttribOfProject(name)
          /\ folders = InitFolders(EmptyBag, own2)
          /\ isolation = [IdleIsolation EXCEPT
                !.name = name,
                !.rows = { [name |-> n, attrib |-> AttribOfProject(n)]
                           : n \in others \cup {name} }]
    /\ hierarchy = HierarchyOf(folders)
    /\ \E rows \in SUBSET CacheOf(folders, project_attrib) : exported = rows
    /\ versions = [f \in FolderIds |-> 0]
    /\ had_version = [f \in FolderIds |-> FALSE]
    /\ req = [r \in Requests |-> IdleReq]
    /\ snap = [r \in Requests |-> NoSnap]
    /\ nops = 0
    /\ tasks = [t \in TaskIds |-> NoTask]
    /\ projects = {ThisProject}
    /\ schemas = [n \in ProjectNames |->
                    IF n = ThisProject THEN DemoSchema ELSE NoSchema]
    /\ prov = IdleProv
    /\ attributes = {}
    /\ deploy = IdleDeploy(<< >>)
    /\ gql = IdleGql
    /\ aux = IdleAux
    /\ presets = IdlePresets
    /\ session = IdleSession
    /\ users = IdleUsers

NextIsolation ==
    \/ \E f \in FolderIds : IsolationLoad(isolation.name, f)
    \/ IsolationQuery(isolation.name)

SpecIsolation == InitIsolation /\ [][NextIsolation]_vars


(* ------------------ aux_table_update on any table --------------------- *)

\* the values of a key of update_data: None, or a dict with or without a
\* "name" key
AuxDatas == {NoData} \cup [null : {FALSE}, icon : {"folder", "film"},
                           name : FolderTypes \cup {NoType}]

\* the dicts update_data can be
AuxUpdates ==
    {u \in SeqsUpTo([key : FolderTypes, data : AuxDatas], Cardinality(FolderTypes)) :
        \A j, k \in DOMAIN u : u[j].key = u[k].key => j = k}

\* the folders of the scenario, with nothing in flight
InitBase ==
    /\ project_attrib = ProjectDefaults
    /\ folders = InitFolders(EmptyBag, EmptyBag)
    /\ hierarchy = HierarchyOf(folders)
    /\ exported = CacheOf(folders, project_attrib)
    /\ versions = [f \in FolderIds |-> 0]
    /\ had_version = [f \in FolderIds |-> FALSE]
    /\ req = [r \in Requests |-> IdleReq]
    /\ snap = [r \in Requests |-> NoSnap]
    /\ nops = 0
    /\ tasks = [t \in TaskIds |-> NoTask]
    /\ projects = {ThisProject}
    /\ schemas = [n \in ProjectNames |->
                    IF n = ThisProject THEN DemoSchema ELSE NoSchema]
    /\ prov = IdleProv
    /\ attributes = {}
    /\ deploy = IdleDeploy(<< >>)
    /\ gql = IdleGql

\* the table holds any rows the INSERT loop of _save writes: one row per
\* name, with data
InitAux ==
    /\ InitBase
    /\ isolation = IdleIsolation
    /\ presets = IdlePresets
    /\ session = IdleSession
    /\ users = IdleUsers
    /\ \E names \in SUBSET FolderTypes, unique \in BOOLEAN, not_null \in BOOLEAN :
       \E icon \in [names -> {"folder", "film"}] :
          aux = [IdleAux EXCEPT
                   !.table = {[name |-> n,
                               data |-> [null |-> FALSE, icon |-> icon[n],
                                         name |-> NoType]] : n \in names},
                   !.unique = unique, !.not_null = not_null]

NextAux ==
    \/ \E update_data \in AuxUpdates : AuxTableUpdate(update_data)
    \/ AuxRound

SpecAux == InitAux /\ [][NextAux]_vars


(* ------------------- set_primary_preset by two callers ----------------- *)

\* any presets stored by update_anatomy_preset, at most one of them primary
InitPresets ==
    /\ InitBase
    /\ isolation = IdleIsolation
    /\ aux = IdleAux
    /\ session = IdleSession
    /\ users = IdleUsers
    /\ \E names \in SUBSET PresetNames, primary \in PresetNames \cup {NoPreset} :
          presets = [IdlePresets EXCEPT
                       !.rows = {[name |-> n, is_primary |-> n = primary]
                                 : n \in names}]

NextPresets ==
    \E c \in Callers :
        \/ \E preset_name \in PresetNames : BeginSetPrimary(c, preset_name)
        \/ ClearPrimary(c)
        \/ ClearPrimaryBlocked(c)
        \/ ClearPrimaryResumed(c)
        \/ SetPrimary(c)
        \/ CommitSetPrimary(c)

SpecPresets == InitPresets /\ [][NextPresets]_vars


(* --------------------- dep_current_user on any request ----------------- *)

\* the values user.permissions(project_name) can have
PermsValues ==
    {NoPerms}
    \cup [has_record : {TRUE}, is_list : {TRUE}, endpoints : SUBSET Endpoints]
    \cup {[has_record |-> TRUE, is_list |-> FALSE, endpoints |-> {}]}

InitSession ==
    /\ InitBase
    /\ isolation = IdleIsolation
    /\ aux = IdleAux
    /\ presets = IdlePresets
    /\ users = IdleUsers
    /\ session = IdleSession

NextSession ==
    \/ \E has_token \in BOOLEAN, valid \in BOOLEAN, is_manager \in BOOLEAN,
          perms \in PermsValues, endpoint \in Endpoints :
          BeginRequest(has_token, valid, is_manager, perms, endpoint)
    \/ DepAccessToken
    \/ SessionCheck
    \/ DepCurrentUser

SpecSession == InitSession /\ [][NextSession]_vars


(* ----------------------- requests of the users API --------------------- *)

\* the bodies of assign_user_roles: no entry, one entry with a list or with
\* the empty list for a project that has or lacks an entry, two entries for
\* two projects, two entries for the same project
PatchDatas ==
    LET rconf(q, roles) == [project |-> q, roles |-> roles]
    IN { << >>,
         << rconf("p1", {"viewer"}) >>,
         << rconf("p1", {}) >>,
         << rconf("p2", {"viewer"}) >>,
         << rconf("p2", {}) >>,
         << rconf("p1", {}), rconf("p2", {"viewer"}) >>,
         << rconf("p1", {"viewer"}), rconf("p1", {}) >> }

\* bob does not exist, or exists with a role on p1
InitUsers ==
    /\ InitBase
    /\ isolation = IdleIsolation
    /\ aux = IdleAux
    /\ presets = IdlePresets
    /\ session = IdleSession
    /\ \E bob \in BOOLEAN :
          users = [IdleUsers EXCEPT
             !.rows = [n \in UserNames |->
                         IF bob
                         THEN [exists |-> TRUE, data |-> "first",
                               roles |-> [q \in RoleProjects |->
                                            IF q = "p1"
                                            THEN [has |-> TRUE, roles |-> {"artist"}]
                                            ELSE NoRoles]]
                         ELSE NoUserRow]]

\* create_user and delete_user requests of two callers, in any interleaving
NextUsers ==
    \E c \in Callers :
        \/ \E is_manager \in BOOLEAN, user_name \in UserNames :
              \/ \E put_data \in {"first", "second"} :
                    BeginUserRequest(c, "create_user", is_manager, user_name,
                                     put_data, << >>)
              \/ BeginUserRequest(c, "delete_user", is_manager, user_name, "", << >>)
        \/ CheckManager(c)
        \/ LoadUser(c)
        \/ SaveUser(c)
        \/ DeleteUser(c)

SpecUsers == InitUsers /\ [][NextUsers]_vars

\* requests of the three handlers, one at a time
NextRoles ==
    \E c \in Callers :
        \/ /\ \A d \in Callers : users.reqs[d].pc \in {"idle", "done"}
           /\ \E is_manager \in BOOLEAN, user_name \in UserNames :
                 \/ \E put_data \in {"first", "second"} :
                       BeginUserRequest(c, "create_user", is_manager, user_name,
                                        put_data, << >>)
                 \/ BeginUserRequest(c, "delete_user", is_manager, user_name,
                                     "", << >>)
                 \/ \E patch_data \in PatchDatas :
                       BeginUserRequest(c, "assign_user_roles", is_manager,
                                        user_name, "", patch_data)
        \/ CheckManager(c)
        \/ LoadUser(c)
        \/ SaveUser(c)
        \/ DeleteUser(c)

SpecRoles == InitUsers /\ [][NextRoles]_vars


(* ============================== properties ============================= *)

StartsWith(p, q) == Len(p) >= Len(q) /\ SubSeq(p, 1, Len(q)) = q

\* path is root or lies under it
InSubtree(path, root) == path = root \/ StartsWith(path, root \o <<"/">>)

\* the folders below p in the table fs
Descendants(fs, p) ==
    {d \in FolderIds \ {p} : fs[d].exists /\ p \in Chain(fs, d, MaxFolders)}

\* the folders strictly between p and its descendant d
Between(fs, p, d) == Chain(fs, d, MaxFolders) \ ({d} \cup Chain(fs, p, MaxFolders))

\* the folders table as it was when request r began
OldFolders(r) == snap[r][1]

\* the request gives a name, folder_type or parent_id other than the row's
WouldChange(row, post) ==
    \/ post.name \notin {NoName, row.name}
    \/ post.folder_type \notin {NoType, row.folder_type}
    \/ post.parent_id \notin {NoParent, row.parent_id}

\* request r is an update_folder whose load found the folder
Updating(r) == req[r].kind = "update" /\ req[r].ent.exists

(* C1: FolderEntity.load returns, key by key, the folder's own value if it has
   one, else the value of the parent's cache row if that row has one, else the
   project's value. *)
C1_LoadOverlaysProjectCacheOwn ==
    \A r \in Requests :
        (req[r].kind = "get" /\ req[r].pc = "done" /\ req[r].ent.exists) =>
            LET f == req[r].ent.id
                own == folders[f].attrib
                par == {e \in exported : e.folder_id = folders[f].parent_id}
            IN \A k \in Keys :
                  req[r].ent.attrib[k] =
                      IF own[k] # NoVal THEN own[k]
                      ELSE IF \E e \in par : e.attrib[k] # NoVal
                           THEN (CHOOSE e \in par : e.attrib[k] # NoVal).attrib[k]
                      ELSE project_attrib[k]

\* a load where the three layers disagree: own gives fps, the parent's cache
\* row gives another fps and a resolutionWidth, the project gives yet another
C1_Witness ==
    \E r \in Requests :
        /\ req[r].kind = "get" /\ req[r].pc = "done" /\ req[r].ent.id = 2
        /\ folders[2].attrib["fps"] = 30 /\ folders[2].attrib["resolutionWidth"] = NoVal
        /\ \E e \in exported :
              e.folder_id = 1 /\ e.attrib["fps"] = 25 /\ e.attrib["resolutionWidth"] = 30
        /\ project_attrib["resolutionWidth"] = 25
        /\ req[r].ent.attrib["fps"] = 30 /\ req[r].ent.attrib["resolutionWidth"] = 30

(* C2: after an update_folder that sets own attribute k=v on folder P has
   completed, every descendant D of P with no own k, and no own k on the folders
   between, has a cache row with k=v and loads with k=v. *)
C2_SetAttributeReachesDescendants ==
    \A r \in Requests :
        (Updating(r) /\ req[r].pc = "done" /\ req[r].result = "ok") =>
            \A k \in OwnKeys(req[r].post.attrib) :
                \A d \in Descendants(folders, req[r].ent.id) :
                    (/\ folders[d].attrib[k] = NoVal
                     /\ \A m \in Between(folders, req[r].ent.id, d) :
                           folders[m].attrib[k] = NoVal)
                    => /\ \E e \in exported :
                             /\ e.folder_id = d /\ e.path = hierarchy[d]
                             /\ e.attrib[k] = req[r].post.attrib[k]
                       /\ LoadResults(d) # {}
                       /\ \A ent \in LoadResults(d) :
                             ent.attrib[k] = req[r].post.attrib[k]

\* fps=30 set on folder 1 has reached a grandchild that inherited fps=25 before
C2_Witness ==
    \E r \in Requests, d \in FolderIds :
        /\ Updating(r) /\ req[r].pc = "done" /\ req[r].result = "ok"
        /\ req[r].post.attrib["fps"] = 30
        /\ d \in Descendants(folders, req[r].ent.id)
        /\ folders[d].parent_id # req[r].ent.id
        /\ folders[d].attrib["fps"] = NoVal
        /\ \A m \in Between(folders, req[r].ent.id, d) : folders[m].attrib["fps"] = NoVal
        /\ \E e \in snap[r][3] : e.folder_id = d /\ e.attrib["fps"] = 25
        /\ \E e \in exported : e.folder_id = d /\ e.attrib["fps"] = 30

(* C3: an update_folder on a folder with a Version under one of its Subsets
   that gives a name, folder_type or parent_id other than the folder's ends with
   Forbidden and leaves folders, hierarchy and exported_attributes as they were. *)
C3_VersionedFolderStructureForbidden ==
    \A r \in Requests :
        (/\ Updating(r)
         /\ req[r].pc \notin {"idle", "check"}
         /\ req[r].access = "granted"
         /\ versions[req[r].ent.id] > 0
         /\ WouldChange(OldFolders(r)[req[r].ent.id], req[r].post))
        => /\ req[r].pc = "done"
           /\ req[r].result = "forbidden"
           /\ db = snap[r]

\* a move of a folder with a version has been refused
C3_Witness ==
    \E r \in Requests :
        /\ Updating(r) /\ req[r].pc = "done" /\ req[r].result = "forbidden"
        /\ req[r].access = "granted"
        /\ versions[req[r].ent.id] > 0
        /\ req[r].post.parent_id \notin {NoParent, folders[req[r].ent.id].parent_id}

(* C4: an update_folder on a folder F that is an ancestor of a folder with a
   Version, and that gives a name, folder_type or parent_id other than F's,
   ends with Forbidden (unless it is aborted or a statement of it fails). *)
C4_AncestorOfVersionedFolderLocked ==
    \A r \in Requests :
        (/\ Updating(r) /\ req[r].pc = "done" /\ req[r].result \notin {"failed", "error"}
         /\ \E g \in Descendants(OldFolders(r), req[r].ent.id) : versions[g] > 0
         /\ WouldChange(OldFolders(r)[req[r].ent.id], req[r].post))
        => req[r].result = "forbidden"

(* C5: an update_folder on a folder that once had a Version, all of them
   deleted since, that gives a name, folder_type or parent_id other than the
   folder's, still ends with Forbidden (unless it is aborted or a statement of
   it fails). *)
C5_LockSurvivesVersionDelete ==
    \A r \in Requests :
        (/\ Updating(r) /\ req[r].pc = "done" /\ req[r].result \notin {"failed", "error"}
         /\ had_version[req[r].ent.id] /\ versions[req[r].ent.id] = 0
         /\ WouldChange(OldFolders(r)[req[r].ent.id], req[r].post))
        => req[r].result = "forbidden"

(* C6: an update_folder on a folder with Versions whose name, folder_type and
   parent_id are None or equal to the folder's succeeds (unless it is aborted):
   the attributes it gives are stored as own attributes of the row and are in
   the folder's cache row. *)
C6_AttributesOfVersionedFolderStillWritable ==
    \A r \in Requests :
        (/\ Updating(r) /\ req[r].pc = "done" /\ req[r].result # "failed"
         /\ req[r].access = "granted"
         /\ versions[req[r].ent.id] > 0
         /\ ~WouldChange(OldFolders(r)[req[r].ent.id], req[r].post))
        => /\ req[r].result = "ok"
           /\ \A k \in OwnKeys(req[r].post.attrib) :
                 /\ folders[req[r].ent.id].attrib[k] = req[r].post.attrib[k]
                 /\ \E e \in exported :
                       /\ e.folder_id = req[r].ent.id
                       /\ e.path = hierarchy[req[r].ent.id]
                       /\ e.attrib[k] = req[r].post.attrib[k]

\* fps=30 stored on a folder with a version that had no own fps, the request
\* naming the folder's current name
C6_Witness ==
    \E r \in Requests :
        /\ Updating(r) /\ req[r].pc = "done" /\ req[r].result = "ok"
        /\ versions[req[r].ent.id] > 0
        /\ req[r].post.name = folders[req[r].ent.id].name
        /\ req[r].post.attrib["fps"] = 30
        /\ OldFolders(r)[req[r].ent.id].attrib["fps"] = NoVal
        /\ folders[req[r].ent.id].attrib["fps"] = 30

(* C7: the DELETE of save removes exactly the cache rows of the folder's old
   subtree: the rows whose path is the folder's old path or lies under it. *)
C7_SaveInvalidatesExactlyOldSubtree ==
    \A r \in Requests :
        (Updating(r) /\ req[r].pc = "write") =>
            req[r].tx_del = {e \in exported : InSubtree(e.path, req[r].ent.path)}

(* C8: create_folder with parent_id null by a non-manager ends with Forbidden
   and nothing written; with a parent_id it is forbidden exactly when the
   access check on the parent denies. *)
C8_RootFolderNeedsManager ==
    \A r \in Requests :
        req[r].kind = "create" =>
            /\ (req[r].ent.parent_id = NoParent /\ ~req[r].user.is_manager)
               => (req[r].pc = "done" /\ req[r].result = "forbidden" /\ db = snap[r])
            /\ (req[r].ent.parent_id # NoParent)
               => ((req[r].result = "forbidden") <=> ~EnsureEntityAccess(req[r].user))

\* a non-manager whom the access check grants has been refused a root folder
C8_Witness ==
    \E r \in Requests :
        /\ req[r].kind = "create" /\ req[r].pc = "done"
        /\ req[r].ent.parent_id = NoParent
        /\ ~req[r].user.is_manager /\ req[r].user.grant
        /\ req[r].result = "forbidden"

(* C9: a create_folder or update_folder that ends with a failure leaves
   folders, hierarchy and exported_attributes as they were when it began. *)
C9_FailedSaveLeavesNoTrace ==
    \A r \in Requests :
        (req[r].pc = "done" /\ req[r].result \in {"failed", "error", "constraint"})
        => db = snap[r]

(* C10: two update_folder requests on the same folder are never both between
   the return of their load and the end of their transaction. *)
C10_UpdatesOfOneFolderDoNotInterleave ==
    \A r1, r2 \in Requests :
        (/\ r1 # r2
         /\ Updating(r1) /\ Updating(r2)
         /\ req[r1].ent.id = req[r2].ent.id)
        => ~(req[r1].pc \notin {"idle", "done"} /\ req[r2].pc \notin {"idle", "done"})

(* C11: every row of exported_attributes holds the cascade-merged bag of the
   folder at its path: the project's attributes overlaid top-down by the own
   bags of the ancestors and of the folder. *)
C11_CacheRowsAreCorrect ==
    \A e \in exported : \A f \in FolderIds :
        (folders[f].exists /\ PathOf(folders, f) = e.path)
        => e.attrib = Cascade(folders, project_attrib, f)

\* the loop of commit of request r is over and commit has returned
CommitOver(r) ==
    \/ req[r].pc = "commit"
    \/ req[r].kind = "create" /\ req[r].pc = "done" /\ req[r].result = "ok"

\* the cache rows request r has inserted
Inserted(r) == IF req[r].in_tx THEN req[r].tx_ins ELSE exported \ snap[r][3]

(* C12: when commit has returned, the SELECT of a second commit yields no row
   the loop can build a bag for: a second run inserts nothing and leaves
   exported_attributes as it is. *)
C12_SecondCommitInsertsNothing ==
    \A r \in Requests :
        CommitOver(r) =>
            \A row \in QueryRows(FoldersView(r), HierarchyView(r), ExportedView(r),
                                 project_attrib) :
                ~CanBuild(row, {})

\* commit has returned after it built rows and skipped a path: the second run
\* has a row to look at
C12_Witness ==
    \E r \in Requests :
        /\ CommitOver(r) /\ Inserted(r) # {} /\ req[r].skipped # {}
        /\ QueryRows(FoldersView(r), HierarchyView(r), ExportedView(r),
                     project_attrib) # {}

(* C13: the cursor of commit yields the missing paths in ascending order: no
   path comes after a path below it, and whenever the loop takes a row the bag
   of its parent is at hand, as cache row or as bag built earlier in the run. *)
C13_ParentsAreBuiltBeforeChildren ==
    \A r \in Requests :
        req[r].pc = "insert" =>
            /\ \A i, j \in DOMAIN req[r].rows :
                  i < j => /\ ~PathLess(req[r].rows[j].path, req[r].rows[i].path)
                           /\ req[r].rows[j].path # ParentPath(req[r].rows[i].path)
            /\ CanBuild(Head(req[r].rows), req[r].cache)

\* the loop takes a child whose parent had no cache row and was built earlier
\* in this run
C13_Witness ==
    \E r \in Requests :
        /\ req[r].pc = "insert"
        /\ Head(req[r].rows).parent_id # NoParent
        /\ ~Head(req[r].rows).has_inherited
        /\ Cached(req[r].cache, ParentPath(Head(req[r].rows).path))

(* C14: when commit has returned, a path it skipped has no row, and every
   folder of the view has a row for its path unless it has a parent and no bag
   of the parent exists; the rows the run inserted are the parent's bag (the
   project's for a root) overlaid by the own bag. *)
C14_SkipDoesNotStopRecompute ==
    \A r \in Requests :
        CommitOver(r) =>
            LET fs == FoldersView(r)
                hv == HierarchyView(r)
                ev == ExportedView(r)
            IN /\ \A p \in req[r].skipped : ~\E e \in ev : e.path = p
               /\ \A f \in FolderIds :
                     (fs[f].exists /\ hv[f] # << >>) =>
                        \/ \E e \in ev : e.path = hv[f]
                        \/ /\ fs[f].parent_id # NoParent
                           /\ ~\E e \in ev : e.folder_id = fs[f].parent_id
               /\ \A e \in Inserted(r) :
                     /\ hv[e.folder_id] = e.path
                     /\ IF fs[e.folder_id].parent_id = NoParent
                        THEN e.attrib = Overlay(project_attrib, fs[e.folder_id].attrib)
                        ELSE \E q \in ev :
                                /\ q.folder_id = fs[e.folder_id].parent_id
                                /\ e.attrib = Overlay(q.attrib, fs[e.folder_id].attrib)

\* commit has returned with one path skipped and the row of another inserted
C14_Witness ==
    \E r \in Requests :
        /\ CommitOver(r)
        /\ req[r].skipped # {}
        /\ \E e \in Inserted(r) : e.path \notin req[r].skipped

(* C15: FolderEntity.load of a folder with a parent whose parent has no cache
   row does not fail: it logs the warning and returns the folder with the
   project's attributes overlaid by the folder's own bag. *)
C15_LoadWithoutParentRowFallsBack ==
    \A r \in Requests :
        (/\ req[r].kind = "get" /\ req[r].pc = "done"
         /\ folders[req[r].ent.id].exists /\ hierarchy[req[r].ent.id] # << >>
         /\ folders[req[r].ent.id].parent_id # NoParent
         /\ ~\E e \in exported : e.folder_id = folders[req[r].ent.id].parent_id)
        => /\ req[r].ent.exists
           /\ req[r].result \in {"ok", "forbidden"}
           /\ (req[r].result = "ok") <=> EnsureEntityAccess(req[r].user)
           /\ req[r].warned
           /\ req[r].ent.attrib =
                  Overlay(project_attrib, folders[req[r].ent.id].attrib)

\* folder 2 loaded with no cache row of folder 1: fps from its own bag,
\* resolutionWidth from the project
C15_Witness ==
    \E r \in Requests :
        /\ req[r].kind = "get" /\ req[r].pc = "done" /\ req[r].result = "ok"
        /\ req[r].ent.id = 2 /\ exported = {}
        /\ req[r].warned
        /\ folders[2].attrib["fps"] = 30 /\ folders[2].attrib["resolutionWidth"] = NoVal
        /\ project_attrib["fps"] = 25 /\ project_attrib["resolutionWidth"] = 25
        /\ req[r].ent.attrib["fps"] = 30 /\ req[r].ent.attrib["resolutionWidth"] = 25

(* C16: TaskEntity.load returns the project's attributes overlaid by the cache
   row of the task's folder overlaid by the task's own bag. *)
C16_TaskLoadOverlaysProjectCacheOwn ==
    \A r \in Requests :
        (req[r].kind = "get_task" /\ req[r].pc = "done" /\ req[r].result = "ok") =>
            \E e \in TaskInherited(req[r].ent.id) :
                req[r].ent.attrib =
                    Overlay(Overlay(project_attrib, e.attrib),
                            tasks[req[r].ent.id].attrib)

(* C17: TaskEntity.load of an existing task whose folder has no cache row
   returns the task; no exception leaves it. *)
C17_TaskLoadWithoutCacheRowReturns ==
    \A r \in Requests :
        (/\ req[r].kind = "get_task" /\ req[r].pc = "done"
         /\ tasks[req[r].ent.id].exists
         /\ TaskInherited(req[r].ent.id) = {})
        => req[r].result = "ok"

(* C18: a uniqueness or foreign-key violation raised by the INSERT or by the
   UPDATE of FolderEntity.save reaches the caller as ConstraintViolation. *)
C18_StoreViolationsBecomeConstraintViolation ==
    \A r \in Requests :
        (/\ req[r].kind \in {"create", "update"}
         /\ req[r].pc = "done"
         /\ req[r].result \notin {"forbidden", "notfound", "failed", "ok"}
         /\ \/ ParentMissing(folders, req[r].ent.parent_id)
            \/ NameTaken(folders, req[r].ent.id, req[r].ent.parent_id, req[r].ent.name))
        => req[r].result = "constraint"

(* C19: a ProjectEntity.save of a new project that does not end normally
   leaves the projects table and every namespace as they were; when a row
   with the name exists it ends with ConstraintViolation (unless it is aborted
   before the INSERT has run). *)
C19_ProvisionIsAllOrNothing ==
    (prov.kind = "save" /\ prov.pc = "done") =>
        /\ prov.result # "ok" => (projects = prov.old_projects /\ schemas = prov.old_schemas)
        /\ prov.name \in prov.old_projects =>
              \/ prov.result = "constraint"
              \/ prov.result = "failed" /\ prov.failed_at = "insert"
        /\ prov.result = "ok" =>
              /\ projects = prov.old_projects \cup {prov.name}
              /\ schemas = [prov.old_schemas EXCEPT ![prov.name] =
                               [exists |-> TRUE, tables |-> TRUE,
                                folder_types |-> prov.folder_types,
                                task_types |-> prov.task_types]]

\* the seeding of task_types has failed after the row, the namespace, the
\* tables and a folder type were written
C19_Witness ==
    /\ prov.kind = "save" /\ prov.pc = "done"
    /\ prov.result = "failed" /\ prov.failed_at = "task_types"
    /\ prov.folder_types # {}
    /\ prov.name \notin projects /\ ~schemas[prov.name].exists

(* C20: a row for project P exists in projects exactly when the namespace
   project_P exists, whatever save and delete calls have run or failed; delete
   drops the namespace before it deletes the row, and neither is visible before
   the transaction commits. *)
C20_RowIffNamespace ==
    /\ \A n \in ProjectNames : (n \in projects) <=> schemas[n].exists
    /\ prov.kind = "delete" =>
          /\ prov.tx_unrow => (prov.tx_has_schema /\ ~prov.tx_schema.exists)
          /\ prov.pc \notin {"idle", "done"} =>
                (projects = prov.old_projects /\ schemas = prov.old_schemas)

\* a project that was created has been deleted again
C20_Witness ==
    /\ prov.kind = "delete" /\ prov.pc = "done" /\ prov.result = "ok"
    /\ prov.name \in prov.old_projects /\ prov.old_schemas[prov.name].tables
    /\ prov.name \notin projects /\ ~schemas[prov.name].exists

\* the definitions before place i that deploy_attributes does not skip
InsertedBefore(defs, i) ==
    {n \in 1..(i - 1) : ~DefinitionSkipped(defs[n])}

(* C24: when deploy_attributes has returned, public.attributes holds exactly
   the definitions with a known scope and a known type, and their positions
   count from 0 in the order of the definitions. *)
C24_DeploySkipsBadDefinitionsAndNumbersTheRest ==
    deploy.pc = "done" =>
        /\ {a.name : a \in attributes} =
              {n \in DOMAIN deploy.defs : ~DefinitionSkipped(deploy.defs[n])}
        /\ deploy.skipped =
              {n \in DOMAIN deploy.defs : DefinitionSkipped(deploy.defs[n])}
        /\ \A a \in attributes :
              a.position = Cardinality(InsertedBefore(deploy.defs, a.name))

\* the WHERE clause of the listing carries the path predicate
HasPathPredicate == \E n \in DOMAIN gql.where : gql.where[n].k = "path_like_any"

(* C21: for a manager and for a non-manager without permission record the
   listing has no path predicate and no key is removed from the attribute
   bags; for a non-manager with a permission record the path predicate is
   there and every key outside attrib_read is removed. *)
C21_OnlyNonManagersWithRecordAreRestricted ==
    gql.pc # "idle" =>
        IF gql.user.is_manager \/ ~gql.user.has_record
        THEN /\ ~HasPathPredicate
             /\ gql.pc = "done" => \A f \in gql.records : gql.nodes[f] = gql.data[f]
        ELSE /\ HasPathPredicate
             /\ gql.pc = "done" =>
                  \A f \in gql.records : \A k \in Keys \ gql.user.attrib_read :
                      gql.nodes[f][k] = NoVal

C21_Witness ==
    /\ gql.pc = "done"
    /\ ~gql.user.is_manager
    /\ ~gql.user.has_record
    /\ gql.records = {1, 2, 3}
    /\ gql.nodes[2] = [k \in Keys |-> IF k = "fps" THEN 30 ELSE 25]

(* C22: for a user with a read access list every folder the listing returns
   has a path of the hierarchy view that matches a pattern of the list,
   whatever the other arguments are. *)
C22_ListedFoldersMatchTheAccessList ==
    (gql.pc \in {"resolve", "done"} /\ ~FolderAccessList(gql.user).none) =>
        \A f \in gql.records :
            \E pat \in FolderAccessList(gql.user).patterns : Like(hierarchy[f], pat)

(* C23: for a non-manager with a permission record the attribute bag of a
   listed folder has no key outside attrib_read, and on the keys of
   attrib_read it is the overlay of the project, inherited and own bags: the
   values of the other keys have no effect on it. *)
C23_UnreadableKeysAreRemoved ==
    (gql.pc = "done" /\ ~gql.user.is_manager /\ gql.user.has_record) =>
        \A f \in gql.records : \A k \in Keys :
            gql.nodes[f][k] = IF k \in gql.user.attrib_read THEN gql.data[f][k]
                              ELSE NoVal

C23_Witness ==
    /\ gql.pc = "done"
    /\ ~gql.user.is_manager
    /\ gql.user.has_record
    /\ gql.user.attrib_read = {"fps"}
    /\ 2 \in gql.records
    /\ gql.data[2] = [k \in Keys |-> IF k = "fps" THEN 30 ELSE 25]
    /\ gql.nodes[2] = Fps(30)

\* the steps of a request in the order the handlers run them
NextSteps ==
    { <<"idle", "write">>, <<"idle", "check">>, <<"check", "delete">>,
      <<"delete", "write">>, <<"delete", "delete_wait">>, <<"delete_wait", "write">>,
      <<"write", "refresh">>, <<"refresh", "query">>,
      <<"query", "insert">>, <<"query", "commit">>, <<"insert", "commit">>,
      <<"done", "idle">> }

(* C25: a create or an update runs its steps in the order invalidate (update
   only), row write, view refresh, cache repopulation, each once: the
   recompute follows every row write, a create ends after its recompute, and
   an update ends its transaction only after the recompute it ran on the
   same connection. *)
C25_WriteIsFollowedByOneRecompute ==
    [][\A r \in Requests :
         LET a == req[r] b == req'[r]
         IN a.pc # b.pc =>
              /\ b.pc # "done" => <<a.pc, b.pc>> \in NextSteps
              /\ (b.pc # "done" /\ a.pc # "done" /\ a.pc # "idle") =>
                    (b.in_tx = a.in_tx /\ b.kind = a.kind)
              /\ (a.pc \in {"delete", "delete_wait"}) => a.kind = "update"
              /\ (b.pc = "commit") => a.in_tx
              /\ (b.pc = "done" /\ b.result = "ok" /\ b.kind \in {"create", "update"}) =>
                    IF a.in_tx THEN a.pc = "commit" /\ a.kind = "update"
                    ELSE a.pc \in {"query", "insert"} /\ a.kind = "create"]_vars

C25_Witness ==
    \E r \in Requests :
        /\ req[r].pc = "commit"
        /\ req[r].kind = "update"
        /\ req[r].tx_has_fold
        /\ req[r].tx_has_hier
        /\ req[r].tx_del # {}
        /\ req[r].tx_ins # {}

\* the cache over tables t = <<folders, hierarchy, exported>>: every folder of
\* the view has one row under its path with its id, and there is no other row
ExactCache(t) ==
    /\ \A f \in FolderIds : t[1][f].exists =>
          \E row \in t[3] : row.path = t[2][f] /\ row.folder_id = f
    /\ \A row \in t[3] :
          /\ row.folder_id \in FolderIds
          /\ t[1][row.folder_id].exists
          /\ t[2][row.folder_id] = row.path
    /\ \A x \in t[3], y \in t[3] : x.path = y.path => x = y

(* C26: when a create or an update that began on tables whose cache has
   exactly one row per folder of the view, under the folder's path and with
   its id, has completed, the cache again has exactly one such row per
   folder and no other row. *)
C26_OneCacheRowPerFolder ==
    \A r \in Requests :
        (/\ req[r].pc = "done"
         /\ req[r].result = "ok"
         /\ req[r].kind \in {"create", "update"}
         /\ ExactCache(snap[r])) => ExactCache(db)

C26_Witness ==
    \E r \in Requests :
        /\ req[r].pc = "done"
        /\ req[r].result = "ok"
        /\ req[r].kind = "update"
        /\ ExactCache(snap[r])
        /\ ExactCache(db)
        /\ snap[r][2][2] = <<"a", "s", "/", "a", "s">>
        /\ hierarchy[2] = <<"a", "_", "/", "a", "s">>

(* C30: an update_folder that has completed leaves as stored own bag of the
   folder the own bag it had, overlaid with the attributes of the request:
   with no attributes in the request the stored bag is unchanged, and no
   inherited or project value of the loaded entity is stored. *)
C30_StoredOwnBagStaysSparse ==
    \A r \in Requests :
        (Updating(r) /\ req[r].pc = "done" /\ req[r].result = "ok") =>
            LET f == req[r].ent.id
            IN /\ folders[f].attrib =
                    Overlay(OldFolders(r)[f].attrib, req[r].post.attrib)
               /\ OwnKeys(folders[f].attrib) =
                    OwnKeys(OldFolders(r)[f].attrib) \cup OwnKeys(req[r].post.attrib)

C30_Witness ==
    \E r \in Requests :
        /\ Updating(r)
        /\ req[r].pc = "done"
        /\ req[r].result = "ok"
        /\ req[r].post.attrib = EmptyBag
        /\ req[r].ent.attrib["fps"] = 25
        /\ OldFolders(r)[req[r].ent.id].attrib = EmptyBag
        /\ folders[req[r].ent.id].attrib = EmptyBag

(* C27: no update_folder that changes the name, folder_type or parent_id of
   a folder commits while the folder has a Version. *)
C27_NoRenameCommitsOverAVersion ==
    [][\A r \in Requests :
         (/\ req[r].pc = "commit"
          /\ req'[r].pc = "done"
          /\ req'[r].result = "ok"
          /\ versions[req[r].ent.id] > 0) =>
             ~WouldChange(folders[req[r].ent.id], req[r].post)]_vars

(* C29: when an update of the attributes of a folder and the creation of a
   child under that folder have both completed, the cache row of the child
   is the cascade over the committed attributes of its parent chain. *)
C29_ChildRowIsBuiltFromCommittedParent ==
    \A u \in Requests, c \in Requests :
        (/\ Updating(u) /\ req[u].pc = "done" /\ req[u].result = "ok"
         /\ req[c].kind = "create" /\ req[c].pc = "done" /\ req[c].result = "ok"
         /\ req[c].ent.parent_id = req[u].ent.id) =>
            \A row \in exported :
                row.folder_id = req[c].ent.id =>
                    row.attrib = Cascade(folders, project_attrib, req[c].ent.id)

\* neither folder is on the parent chain of the other
DisjointSubtrees(f, g) ==
    /\ f \notin Chain(folders, g, MaxFolders)
    /\ g \notin Chain(folders, f, MaxFolders)

(* C28: when two update_folder requests on folders of disjoint subtrees have
   both completed, the hierarchy view and the cache are what the two
   requests leave when they run one after the other: the view of the stored
   folders, and one row per folder with its cascade-merged bag. *)
C28_DisjointUpdatesLeaveSerialResult ==
    \A a \in Requests, b \in Requests :
        (/\ a # b
         /\ Updating(a) /\ req[a].pc = "done" /\ req[a].result = "ok"
         /\ Updating(b) /\ req[b].pc = "done" /\ req[b].result = "ok"
         /\ DisjointSubtrees(req[a].ent.id, req[b].ent.id)) =>
            /\ hierarchy = HierarchyOf(folders)
            /\ exported = CacheOf(folders, project_attrib)

(* C31: FolderEntity.load and the SELECT of commit for project P yield one
   record per folder, built from the attributes of the projects row of P,
   whatever other projects exist. *)
C31_ProjectAttributesComeFromOwnRow ==
    /\ isolation.pc = "loaded" =>
          /\ \A x \in isolation.records : x.project = isolation.name
          /\ \A x, y \in isolation.records : x = y
          /\ isolation.attrib =
                Overlay(Overlay(AttribOfProject(isolation.name),
                                IF \E e \in exported :
                                      e.folder_id = folders[isolation.folder].parent_id
                                THEN (CHOOSE e \in exported :
                                        e.folder_id = folders[isolation.folder].parent_id).attrib
                                ELSE EmptyBag),
                        folders[isolation.folder].attrib)
    /\ isolation.pc = "queried" =>
          /\ \A x \in isolation.records :
                x.project_attrib = AttribOfProject(isolation.name)
          /\ \A x, y \in isolation.records : x.id = y.id => x = y

(* C32: for every folder that has a cache row, the bag FolderEntity.load
   returns for it equals the bag of that row. *)
C32_LoadAgreesWithCacheRow ==
    \A f \in FolderIds : \A row \in exported :
        (folders[f].exists /\ row.folder_id = f /\ row.path = hierarchy[f]) =>
            \A ent \in LoadResults(f) : ent.attrib = row.attrib

\* what update_data asks the table to hold: its entries that are not None,
\* under the new name when the data has a "name" key
AuxAsked(update_data) ==
    {[name |-> IF update_data[j].data.name # NoType THEN update_data[j].data.name
               ELSE update_data[j].key,
      data |-> [update_data[j].data EXCEPT !.name = NoType]]
     : j \in {k \in DOMAIN update_data : ~update_data[k].data.null}}

\* C34: after aux_table_update(table, update_data), for every update_data
\* including the empty map, the table holds exactly the entries of update_data
\* whose data is not None, under the new name when the data had a "name" key
C34_TableHoldsExactlyTheUpdateData ==
    aux.pc = "done" => aux.table = AuxAsked(aux.update_data)

\* C35: after any sequence or interleaving of set_primary_preset calls at
\* most one anatomy preset is primary, and after a call set_primary_preset(n)
\* that ran alone on an existing preset n exactly that preset is primary
C35_AtMostOnePrimaryPreset ==
    /\ Cardinality(PrimaryRows(presets.rows)) <= 1
    /\ (/\ presets.solo # NoPreset
        /\ \E r \in presets.rows : r.name = presets.solo)
          => PrimaryRows(presets.rows) = {presets.solo}

\* the second part of C35 alone: a call that ran with no other call in
\* flight leaves exactly its preset primary
SoloCallSetsItsPreset ==
    (/\ presets.solo # NoPreset
     /\ \E r \in presets.rows : r.name = presets.solo)
       => PrimaryRows(presets.rows) = {presets.solo}

\* C36: a non-manager whose permission record lists the allowed endpoints is
\* refused (Unauthorized) every endpoint not in the list; managers, and
\* non-managers with no record or with endpoints that is not a list, are never
\* refused because of the endpoint; a request without a valid session is
\* refused, and is neither counted nor given a user
C36_EndpointListRestrictsNonManagersOnly ==
    /\ (session.pc = "done" /\ session.has_token /\ session.valid) =>
          LET listed == /\ ~session.is_manager
                        /\ session.perms.has_record
                        /\ session.perms.is_list
          IN /\ (listed /\ session.endpoint \notin session.perms.endpoints)
                    => session.result = "Unauthorized"
             /\ ~listed => session.result = "user"
    /\ (session.pc # "idle" /\ ~(session.has_token /\ session.valid)) =>
          /\ session.result # "user"
          /\ session.requests = 0
          /\ session.pc \in {"token", "check", "done"}
          /\ session.pc = "done" => session.result = "Unauthorized"

\* a non-manager with a list that lacks the endpoint has been refused
C36_Witness ==
    /\ session.pc = "done"
    /\ session.has_token /\ session.valid
    /\ ~session.is_manager
    /\ session.perms.has_record /\ session.perms.is_list
    /\ session.endpoint \notin session.perms.endpoints
    /\ session.perms.endpoints # {}
    /\ session.result = "Unauthorized"

\* C37: create_user never overwrites an existing user: when load finds a user
\* of the name the response is 409 and the request writes nothing, a
\* create_user that saves finds no row of the name in its way, and two
\* create_user requests in flight together for the same name do not both
\* end with 201
C37_CreateUserNeverOverwrites ==
    \A c \in Callers :
        LET q == users.reqs[c]
        IN q.kind = "create_user" =>
             /\ (q.pc = "done" /\ q.found.exists) =>
                    q.status = "409" /\ ~q.saved
             /\ q.saved => /\ ~q.before.exists
                           /\ q.status = "201"
             /\ q.status = "201" => q.saved
             /\ \A d \in Callers \ {c} :
                   (/\ users.reqs[d].kind = "create_user"
                    /\ users.reqs[d].user_name = q.user_name
                    /\ users.reqs[d].status = "201") => q.status # "201"

\* two create_user requests for the same new name have both passed load; one
\* has stored its data, the other has failed on the row of the first
C37_Witness ==
    \E c \in Callers : \E d \in Callers \ {c} :
        /\ users.reqs[c].kind = "create_user"
        /\ users.reqs[c].status = "201"
        /\ users.reqs[d].kind = "create_user"
        /\ users.reqs[d].user_name = users.reqs[c].user_name
        /\ users.reqs[d].status = "ConstraintViolation"
        /\ users.rows[users.reqs[c].user_name].data = users.reqs[c].put_data
        /\ users.reqs[d].put_data # users.reqs[c].put_data

\* what patch_data asks for project q of a user whose entry was entry: the
\* last rconf that names q decides, no rconf leaves the entry as it was
RolesAsked(entry, patch_data, q) ==
    LET named == {j \in DOMAIN patch_data : patch_data[j].project = q}
        last == CHOOSE j \in named : \A k \in named : k <= j
    IN IF named = {} THEN entry
       ELSE IF patch_data[last].roles = {} THEN NoRoles
       ELSE [has |-> TRUE, roles |-> patch_data[last].roles]

\* C38: create_user, delete_user and assign_user_roles called by a
\* non-manager end with Forbidden before any user is loaded or saved;
\* assign_user_roles by a manager stores the list of each project named with
\* a non-empty list, removes the entry of each project named with an empty
\* list, and leaves the entries of the projects not named, and the rest of
\* the user, as they were loaded
C38_OnlyManagersChangeUsers ==
    \A c \in Callers :
        LET q == users.reqs[c]
        IN /\ (q.pc # "idle" /\ ~q.is_manager) =>
                 /\ q.pc \in {"manager", "done"}
                 /\ ~q.loaded /\ ~q.saved
                 /\ q.pc = "done" => q.status = "Forbidden"
           /\ (q.kind = "assign_user_roles" /\ q.status = "204") =>
                 /\ q.is_manager
                 /\ users.rows[q.user_name].exists
                 /\ users.rows[q.user_name].data = q.found.data
                 /\ \A p \in RoleProjects :
                       users.rows[q.user_name].roles[p] =
                           RolesAsked(q.found.roles[p], q.patch_data, p)

\* assign_user_roles by a manager has removed the entry of p1, which the user
\* had when loaded
C38_Witness ==
    \E c \in Callers :
        LET q == users.reqs[c]
        IN /\ q.kind = "assign_user_roles"
           /\ q.status = "204"
           /\ Len(q.patch_data) > 0
           /\ q.found.roles["p1"].has
           /\ ~users.rows[q.user_name].roles["p1"].has
           /\ \E j \in DOMAIN q.patch_data : q.patch_data[j].project = "p1"

====
